---------------------------- MODULE Spec2Model ----------------------------
(* A model of the H-orbital package: quantum-number parsing, the analytic   *)
(* wavefunction entry points, render-mode evaluation, scale resolution and  *)
(* plane-grid construction.  Each pure function of the package is an        *)
(* operator computed the way the code computes it; each action is one call  *)
(* of a function with inputs drawn from bounded sets, recording the         *)
(* arguments and the outcome (a returned value or a raised exception).      *)
EXTENDS Integers, Sequences, FiniteSets, TLC

VARIABLES
    op,      \* name of the function called last ("init" before any call)
    args,    \* the arguments of that call, as passed
    ret,     \* its outcome: [status |-> "ok" | exception class, value |-> ...]
    values,  \* the caller's quantum-number list object (argv of the CLI)
    pc,      \* position inside a function or workflow that takes several steps
    locals,  \* the local variables of that function
    calls,   \* the calls a workflow has made so far, in order
    app      \* the attributes of the GUI application object

\* The state of the multi-step functions and workflows.
workflow == <<pc, locals, calls, app>>

vars == <<op, args, ret, values, pc, locals, calls, app>>

----------------------------------------------------------------------------
(* Bounds of the model.                                                     *)

MaxN == 3          \* largest quantum number drawn as an input
MaxNeg == 2        \* inputs go down to -MaxNeg (invalid quantum numbers)
MaxValues == 4     \* longest quantum-number list drawn as an input
MaxLen == 2        \* longest one-dimensional sample array
MaxAbs == 1        \* largest |Re|, |Im| of a sampled complex field element
MaxExtent == 2     \* largest extent_a0 drawn as an input
MaxPoints == 3     \* largest points drawn as an input
MaxScore == 1      \* scores of one kind are drawn from MaxScore + 1 values
MaxSamples == 4    \* longest sampled radial array drawn as an input
MaxAfter == 2      \* root.after is called at most MaxAfter times

----------------------------------------------------------------------------
(* Outcomes of a call.                                                      *)

Return(v) == [status |-> "ok", value |-> v]

Raise(exc, msg) == [status |-> exc, value |-> msg]

Abs(x) == IF x < 0 THEN -x ELSE x

RECURSIVE SeqsUpTo(_, _)
SeqsUpTo(S, k) ==
    IF k = 0 THEN {<<>>}
    ELSE LET shorter == SeqsUpTo(S, k - 1)
         IN shorter \cup {Append(s, x) : s \in {t \in shorter : Len(t) = k - 1}, x \in S}

----------------------------------------------------------------------------
(* quantum_numbers.py                                                       *)

QuantumNumbers(n, l, m) == [n |-> n, l |-> l, m |-> m]

Pad_ones(vals) == vals \o [i \in 1..(3 - Len(vals)) |-> 1]

\* values + [0] * (3 - len(values))
Pad(vals) == vals \o [i \in 1..(3 - Len(vals)) |-> 0]

parse_quantum_numbers_signed_m(vals) ==
    IF ~(1 <= Len(vals) /\ Len(vals) <= 3)
    THEN Raise("ValueError", "Please provide 1 to 3 quantum numbers: n [l] [m].")
    ELSE LET padded == Pad(vals)
             n == padded[1]
             l == padded[2]
             m == padded[3]
         IN IF n < 1
            THEN Raise("ValueError", "Principal quantum number n must be >= 1.")
            ELSE IF l < 0
            THEN Raise("ValueError", "Angular momentum quantum number l must be >= 0.")
            ELSE IF l > n - 1
            THEN Raise("ValueError", "Angular momentum quantum number l must satisfy l <= n - 1.")
            ELSE IF m > l
            THEN Raise("ValueError", "Magnetic quantum number m must satisfy |m| <= l.")
            ELSE Return(QuantumNumbers(n, l, m))

parse_quantum_numbers_lenient(vals) ==
    IF ~(1 <= Len(vals) /\ Len(vals) <= 3)
    THEN Raise("ValueError", "Please provide 1 to 3 quantum numbers: n [l] [m].")
    ELSE Return(QuantumNumbers(Pad(vals)[1], Pad(vals)[2], Pad(vals)[3]))

parse_quantum_numbers(vals) ==
    IF ~(1 <= Len(vals) /\ Len(vals) <= 3)
    THEN Raise("ValueError", "Please provide 1 to 3 quantum numbers: n [l] [m].")
    ELSE LET padded == Pad(vals)
             n == padded[1]
             l == padded[2]
             m == padded[3]
         IN IF n < 1
            THEN Raise("ValueError", "Principal quantum number n must be >= 1.")
            ELSE IF l < 0
            THEN Raise("ValueError", "Angular momentum quantum number l must be >= 0.")
            ELSE IF l > n - 1
            THEN Raise("ValueError", "Angular momentum quantum number l must satisfy l <= n - 1.")
            ELSE IF Abs(m) > l
            THEN Raise("ValueError", "Magnetic quantum number m must satisfy |m| <= l.")
            ELSE Return(QuantumNumbers(n, l, m))

----------------------------------------------------------------------------
(* analytic.py.  Angles are integers in units of pi/4, radii integers in    *)
(* units of a sample step; special-function values are kept as terms.       *)
(* math.factorial raises ValueError on a negative argument, a Python float  *)
(* division by 0.0 raises ZeroDivisionError, the NumPy and SciPy array      *)
(* operations (division, power, exp, eval_genlaguerre, lpmv) raise nothing. *)

PhaseTurn == 2 * 4     \* 2*pi in units of pi/4

FactorialRaises(k) == k < 0

radial_wavefunction(n, l, r) ==
    \* prefactor = (2.0 / (n * BOHR_RADIUS)) ** 1.5
    IF n = 0
    THEN Raise("ZeroDivisionError", "float division by zero")
    \* norm = sqrt(factorial(n - l - 1) / (2.0 * n * factorial(n + l)))
    ELSE IF FactorialRaises(n - l - 1) \/ FactorialRaises(n + l)
    THEN Raise("ValueError", "factorial() not defined for negative values")
    ELSE Return([i \in DOMAIN r |-> [fn |-> "R", n |-> n, l |-> l, r |-> r[i]]])

\* A complex value in polar form: sign * K(l,|m|) * P_l^|m|(cos theta) * e^{i*phase}.
Polar(sign, l, m_abs, theta, phase) ==
    [sign |-> sign, l |-> l, m_abs |-> m_abs, theta |-> theta, phase |-> phase % PhaseTurn]

Conjugate(z) == [z EXCEPT !.phase = (PhaseTurn - z.phase) % PhaseTurn]

MinusOneToThe(k) == IF k % 2 = 0 THEN 1 ELSE -1

Scale(c, z) == [z EXCEPT !.sign = c * z.sign]

spherical_harmonic_phase_phi(l, m, theta, phi) ==
    LET m_abs == Abs(m)
    IN IF FactorialRaises(l - m_abs) \/ FactorialRaises(l + m_abs)
       THEN Raise("ValueError", "factorial() not defined for negative values")
       ELSE LET y_positive == [i \in DOMAIN theta |->
                                  Polar(1, l, m_abs, theta[i], phi[i])]
            IN IF m >= 0
               THEN Return(y_positive)
               ELSE Return([i \in DOMAIN theta |->
                              Scale(MinusOneToThe(m_abs), Conjugate(y_positive[i]))])

spherical_harmonic_no_sign(l, m, theta, phi) ==
    LET m_abs == Abs(m)
    IN IF FactorialRaises(l - m_abs) \/ FactorialRaises(l + m_abs)
       THEN Raise("ValueError", "factorial() not defined for negative values")
       ELSE LET y_positive == [i \in DOMAIN theta |->
                                  Polar(1, l, m_abs, theta[i], m_abs * phi[i])]
            IN IF m >= 0
               THEN Return(y_positive)
               ELSE Return([i \in DOMAIN theta |-> Conjugate(y_positive[i])])

spherical_harmonic(l, m, theta, phi) ==
    LET m_abs == Abs(m)
    IN \* factorial(l - m_abs) / factorial(l + m_abs)
       IF FactorialRaises(l - m_abs) \/ FactorialRaises(l + m_abs)
       THEN Raise("ValueError", "factorial() not defined for negative values")
       ELSE LET y_positive == [i \in DOMAIN theta |->
                                  Polar(1, l, m_abs, theta[i], m_abs * phi[i])]
            IN IF m >= 0
               THEN Return(y_positive)
               ELSE Return([i \in DOMAIN theta |->
                              Scale(MinusOneToThe(m_abs), Conjugate(y_positive[i]))])

hydrogen_wavefunction(n, l, m, r, theta, phi) ==
    LET radial == radial_wavefunction(n, l, r)
    IN IF radial.status # "ok" THEN radial
       ELSE LET angular == spherical_harmonic(l, m, theta, phi)
            IN IF angular.status # "ok" THEN angular
               ELSE Return([i \in DOMAIN r |->
                              [radial |-> radial.value[i], angular |-> angular.value[i]]])

----------------------------------------------------------------------------
(* modes.py.  A complex field is an array of elements [re, im] with integer *)
(* parts; |psi|^2 is computed exactly as re^2 + im^2.                       *)

Complex(re, im) == [re |-> re, im |-> im]

np_real(psi) == [i \in DOMAIN psi |-> psi[i].re]

np_imag(psi) == [i \in DOMAIN psi |-> psi[i].im]

np_abs_squared(psi) == [i \in DOMAIN psi |-> psi[i].re * psi[i].re + psi[i].im * psi[i].im]

evaluate_mode_fallthrough(psi, mode) ==
    IF mode = "real" THEN Return(np_real(psi))
    ELSE IF mode = "imag" THEN Return(np_imag(psi))
    ELSE IF mode = "real_imag" THEN Return(<<np_real(psi), np_imag(psi)>>)
    ELSE Return(np_abs_squared(psi))

evaluate_mode_swapped(psi, mode) ==
    IF mode = "density" THEN Return(np_abs_squared(psi))
    ELSE IF mode = "real" THEN Return(np_real(psi))
    ELSE IF mode = "imag" THEN Return(np_imag(psi))
    ELSE IF mode = "real_imag" THEN Return(<<np_imag(psi), np_real(psi)>>)
    ELSE Raise("ValueError", <<"Unsupported render mode: ", mode>>)

evaluate_mode(psi, mode) ==
    IF mode = "density" THEN Return(np_abs_squared(psi))
    ELSE IF mode = "real" THEN Return(np_real(psi))
    ELSE IF mode = "imag" THEN Return(np_imag(psi))
    ELSE IF mode = "real_imag" THEN Return(<<np_real(psi), np_imag(psi)>>)
    ELSE Raise("ValueError", <<"Unsupported render mode: ", mode>>)

----------------------------------------------------------------------------
(* plotting.py                                                              *)

resolve_scale_density_like(mode, scale) ==
    IF scale = "auto"
    THEN (IF mode \in {"density", "radial_distribution"} THEN "log" ELSE "symlog")
    ELSE scale

resolve_scale_coercing(mode, scale) ==
    IF scale = "auto"
    THEN (IF mode = "density" THEN "log" ELSE "symlog")
    ELSE IF mode = "density" /\ scale = "symlog" THEN "linear"
    ELSE scale

resolve_scale(mode, scale) ==
    IF scale = "auto"
    THEN (IF mode = "density" THEN "log" ELSE "symlog")
    ELSE scale

----------------------------------------------------------------------------
(* slicing.py.  Numbers in units of a0 are exact rationals <<num, den>> in  *)
(* lowest terms; a length in metres is the product of such a number with    *)
(* the Bohr radius, kept as the pair of its factors.                        *)

BOHR_RADIUS == "5.29177210903e-11"

RECURSIVE GCD(_, _)
GCD(a, b) == IF b = 0 THEN a ELSE GCD(b, a % b)

Rat(num, den) ==
    LET g == GCD(Abs(num), den)
    IN <<num \div g, den \div g>>

Times(q, c) == [coef |-> q, unit |-> c]

\* np.linspace(start, stop, num): num < 0 raises, num = 1 gives [start].
np_linspace(start, stop, num) ==
    IF num < 0
    THEN Raise("ValueError", <<"Number of samples, ", num, ", must be non-negative.">>)
    ELSE Return([k \in 1..num |->
                   IF num = 1 THEN Rat(start, 1)
                   ELSE Rat(start * (num - 1) + (k - 1) * (stop - start), num - 1)])

\* np.meshgrid(axis, axis): u[i][j] = axis[j], v[i][j] = axis[i].
np_meshgrid_u(axis) == [i \in DOMAIN axis |-> [j \in DOMAIN axis |-> axis[j]]]

np_meshgrid_v(axis) == [i \in DOMAIN axis |-> [j \in DOMAIN axis |-> axis[i]]]

np_full_like(a, fill) == [i \in DOMAIN a |-> [j \in DOMAIN a[i] |-> fill]]

ArrayTimes(a, c) == [i \in DOMAIN a |-> [j \in DOMAIN a[i] |-> Times(a[i][j], c)]]

SliceGrid(u, v, x, y, z, u_label, v_label, plane_label) ==
    [u |-> u, v |-> v, x |-> x, y |-> y, z |-> z,
     u_label |-> u_label, v_label |-> v_label, plane_label |-> plane_label]

build_plane_grid_y_as_z(plane, value_a0, extent_a0, points) ==
    LET axis == np_linspace(-extent_a0, extent_a0, points)
    IN IF axis.status # "ok" THEN axis
       ELSE LET u == np_meshgrid_u(axis.value)
                v == np_meshgrid_v(axis.value)
                value == Times(Rat(value_a0, 1), BOHR_RADIUS)
                label == <<plane, "=", value_a0, " a0">>
            IN IF plane = "x"
               THEN Return(SliceGrid(u, v, np_full_like(u, value),
                                     ArrayTimes(u, BOHR_RADIUS), ArrayTimes(v, BOHR_RADIUS),
                                     "Y", "Z", label))
               ELSE Return(SliceGrid(u, v, ArrayTimes(u, BOHR_RADIUS),
                                     ArrayTimes(v, BOHR_RADIUS), np_full_like(u, value),
                                     "X", "Y", label))

build_plane_grid(plane, value_a0, extent_a0, points) ==
    LET axis == np_linspace(-extent_a0, extent_a0, points)
    IN IF axis.status # "ok" THEN axis
       ELSE LET u == np_meshgrid_u(axis.value)
                v == np_meshgrid_v(axis.value)
                value == Times(Rat(value_a0, 1), BOHR_RADIUS)
                label == <<plane, "=", value_a0, " a0">>
            IN IF plane = "x"
               THEN Return(SliceGrid(u, v, np_full_like(u, value),
                                     ArrayTimes(u, BOHR_RADIUS), ArrayTimes(v, BOHR_RADIUS),
                                     "Y", "Z", label))
               ELSE IF plane = "y"
               THEN Return(SliceGrid(u, v, ArrayTimes(u, BOHR_RADIUS),
                                     np_full_like(u, value), ArrayTimes(v, BOHR_RADIUS),
                                     "X", "Z", label))
               ELSE Return(SliceGrid(u, v, ArrayTimes(u, BOHR_RADIUS),
                                     ArrayTimes(v, BOHR_RADIUS), np_full_like(u, value),
                                     "X", "Y", label))

----------------------------------------------------------------------------
(* slicing.py, cartesian_to_spherical.  Coordinates are integers; a radius  *)
(* is kept as the integer under its square root, a quotient as its two      *)
(* operands, an angle as a named value or as the term that defines it.      *)
(* NumPy's true division gives nan for 0/0 and inf for x/0.                 *)

Radius(sq) == [sq |-> sq]

np_sqrt_sum_squares(x, y, z) ==
    [i \in DOMAIN x |-> Radius(x[i] * x[i] + y[i] * y[i] + z[i] * z[i])]

\* np.where(r == 0.0, 1.0, r)
np_where_safe_r(r) == [i \in DOMAIN r |-> IF r[i].sq = 0 THEN Radius(1) ELSE r[i]]

np_divide(a, b) ==
    [i \in DOMAIN a |->
        IF b[i].sq = 0
        THEN [kind |-> IF a[i] = 0 THEN "nan" ELSE "inf", num |-> a[i], den |-> b[i]]
        ELSE [kind |-> "quot", num |-> a[i], den |-> b[i]]]

Angle(kind, a, b) == [kind |-> kind, a |-> a, b |-> b]

\* np.arccos(np.clip(q, -1.0, 1.0)); |z| <= r, so the quotient is +-1 only
\* on the z axis.
np_arccos_clip(q) ==
    [i \in DOMAIN q |->
        IF q[i].kind = "nan" THEN Angle("nan", 0, 0)
        ELSE IF q[i].kind = "inf" THEN Angle(IF q[i].num > 0 THEN "zero" ELSE "pi", 0, 0)
        ELSE IF q[i].num = 0 THEN Angle("half_pi", 0, 0)
        ELSE IF q[i].num * q[i].num >= q[i].den.sq
             THEN Angle(IF q[i].num > 0 THEN "zero" ELSE "pi", 0, 0)
        ELSE Angle("arccos", q[i].num, q[i].den.sq)]

\* np.where(r == 0.0, 0.0, theta)
np_where_origin_zero(r, theta) ==
    [i \in DOMAIN r |-> IF r[i].sq = 0 THEN Angle("zero", 0, 0) ELSE theta[i]]

np_arctan2(y, x) ==
    [i \in DOMAIN y |->
        IF y[i] = 0 THEN Angle(IF x[i] >= 0 THEN "zero" ELSE "pi", 0, 0)
        ELSE IF x[i] = 0 THEN Angle(IF y[i] > 0 THEN "half_pi" ELSE "minus_half_pi", 0, 0)
        ELSE Angle("arctan2", y[i], x[i])]

Spherical(r, theta, phi) == [r |-> r, theta |-> theta, phi |-> phi]

cartesian_to_spherical_unsafe(x, y, z) ==
    LET r == np_sqrt_sum_squares(x, y, z)
    IN Spherical(r, np_arccos_clip(np_divide(z, r)), np_arctan2(y, x))

cartesian_to_spherical(x, y, z) ==
    LET r == np_sqrt_sum_squares(x, y, z)
        safe_r == np_where_safe_r(r)
        theta == np_arccos_clip(np_divide(z, safe_r))
    IN Spherical(r, np_where_origin_zero(r, theta), np_arctan2(y, x))

----------------------------------------------------------------------------
(* Floating-point numbers.  <<m, e>> stands for m * 10^e with a mantissa of  *)
(* 8 decimal digits (10^7 <= |m| < 10^8) or for zero (m = 0); products,     *)
(* quotients and sums are truncated to 8 digits.                            *)

Float(m, e) == <<m, e>>

Sign(v) == IF v < 0 THEN -1 ELSE IF v > 0 THEN 1 ELSE 0

RECURSIVE FNorm(_, _)
FNorm(m, e) ==
    IF m = 0 THEN Float(0, 0)
    ELSE IF Abs(m) >= 100000000 THEN FNorm(Sign(m) * (Abs(m) \div 10), e + 1)
    ELSE IF Abs(m) < 10000000 THEN FNorm(m * 10, e - 1)
    ELSE Float(m, e)

\* The decimal literal m * 10^e, e.g. Dec(125, -2) for 1.25.
Dec(m, e) == FNorm(m, e)

FromInt(k) == FNorm(k, 0)

FNeg(a) == Float(-a[1], a[2])

FAbs(a) == Float(Abs(a[1]), a[2])

FSign(a) == Sign(a[1])

FMul(a, b) ==
    IF a[1] = 0 \/ b[1] = 0 THEN Float(0, 0)
    ELSE LET A == Abs(a[1])
             B == Abs(b[1])
             A1 == A \div 10000
             A0 == A % 10000
             B1 == B \div 10000
             B0 == B % 10000
             top == (A1 * B1) * 10 + ((A1 * B0 + A0 * B1) + ((A0 * B0) \div 10000)) \div 1000
             s == Sign(a[1]) * Sign(b[1])
         IN IF top >= 100000000
            THEN Float(s * (top \div 10), a[2] + b[2] + 8)
            ELSE Float(s * top, a[2] + b[2] + 7)

FAddAligned(a, b) ==
    LET d == a[2] - b[2]
    IN IF d > 9 THEN a
       ELSE FNorm(a[1] * 10 + Sign(b[1]) * ((Abs(b[1]) * 10) \div (10 ^ d)), a[2] - 1)

FAdd(a, b) ==
    IF a[1] = 0 THEN b
    ELSE IF b[1] = 0 THEN a
    ELSE IF a[2] >= b[2] THEN FAddAligned(a, b) ELSE FAddAligned(b, a)

FSub(a, b) == FAdd(a, FNeg(b))

RECURSIVE LongDiv(_, _, _, _)
LongDiv(q, rem, B, k) ==
    IF k = 0 THEN q
    ELSE LongDiv(q * 10 + (rem * 10) \div B, (rem * 10) % B, B, k - 1)

\* The values that are not numbers: nan, and inf with its sign; a mantissa 0
\* with an exponent other than 0 does not occur among the numbers.
NaN == Float(0, 1)

Inf(sign) == Float(0, 2 * sign)

IsFinite(a) == a[1] # 0 \/ a[2] = 0

\* a / b of numpy floats: 0.0 / 0.0 is nan, a / 0.0 is inf with the sign of a
FDiv(a, b) ==
    IF b[1] = 0 THEN (IF a[1] = 0 THEN NaN ELSE Inf(Sign(a[1])))
    ELSE IF a[1] = 0 THEN Float(0, 0)
    ELSE LET A == Abs(a[1])
             B == Abs(b[1])
         IN FNorm(Sign(a[1]) * Sign(b[1]) * LongDiv(A \div B, A % B, B, 8), a[2] - b[2] - 8)

FLess(a, b) ==
    IF Sign(a[1]) # Sign(b[1]) THEN a[1] < b[1]
    ELSE IF a[1] = 0 THEN FALSE
    ELSE IF a[1] > 0
         THEN (a[2] < b[2] \/ (a[2] = b[2] /\ a[1] < b[1]))
         ELSE (a[2] > b[2] \/ (a[2] = b[2] /\ a[1] < b[1]))

FLeq(a, b) == ~FLess(b, a)

FMax(a, b) == IF FLess(a, b) THEN b ELSE a

FMin(a, b) == IF FLess(b, a) THEN b ELSE a

\* ExpTable[k][d] is exp(-d * 10^(k - 5)), for k in 1..6 and d in 1..9.
ExpTable ==
    <<
      <<<<99990000, -8>>, <<99980002, -8>>, <<99970004, -8>>, <<99960008, -8>>, <<99950012, -8>>, <<99940018, -8>>, <<99930024, -8>>, <<99920032, -8>>, <<99910040, -8>>>>,
      <<<<99900050, -8>>, <<99800200, -8>>, <<99700450, -8>>, <<99600799, -8>>, <<99501248, -8>>, <<99401796, -8>>, <<99302444, -8>>, <<99203191, -8>>, <<99104038, -8>>>>,
      <<<<99004983, -8>>, <<98019867, -8>>, <<97044553, -8>>, <<96078944, -8>>, <<95122942, -8>>, <<94176453, -8>>, <<93239382, -8>>, <<92311635, -8>>, <<91393119, -8>>>>,
      <<<<90483742, -8>>, <<81873075, -8>>, <<74081822, -8>>, <<67032005, -8>>, <<60653066, -8>>, <<54881164, -8>>, <<49658530, -8>>, <<44932896, -8>>, <<40656966, -8>>>>,
      <<<<36787944, -8>>, <<13533528, -8>>, <<49787068, -9>>, <<18315639, -9>>, <<67379470, -10>>, <<24787522, -10>>, <<91188197, -11>>, <<33546263, -11>>, <<12340980, -11>>>>,
      <<<<45399930, -12>>, <<20611536, -16>>, <<93576230, -21>>, <<42483543, -25>>, <<19287498, -29>>, <<87565108, -34>>, <<39754497, -38>>, <<18048514, -42>>, <<81940126, -47>>>>
    >>

\* The product of exp(-d * 10^(k - 5)) over the decimal digits d of K; what
\* is left of K above six digits counts hundreds, exp(-100) each.
RECURSIVE ExpDigits(_, _, _)
ExpDigits(K, k, acc) ==
    IF K = 0 THEN acc
    ELSE IF k > 6
    THEN ExpDigits(K - 1, k, FMul(acc, FMul(ExpTable[6][9], ExpTable[6][1])))
    ELSE ExpDigits(K \div 10, k + 1,
                   IF K % 10 = 0 THEN acc ELSE FMul(acc, ExpTable[k][K % 10]))

\* np.exp(-y) for y >= 0: the digits of y down to 10^-4 by the table, the
\* rest delta by 1 - delta + delta^2 / 2.
np_exp_minus(y) ==
    IF y[1] = 0 THEN FromInt(1)
    ELSE IF y[2] + 4 >= 0
    THEN ExpDigits(y[1] * (10 ^ (y[2] + 4)), 1, FromInt(1))
    ELSE IF y[2] + 4 < -8 THEN FSub(FromInt(1), y)
    ELSE LET p == 10 ^ (-(y[2] + 4))
             delta == FNorm(y[1] % p, y[2])
         IN FMul(ExpDigits(y[1] \div p, 1, FromInt(1)),
                 FAdd(FSub(FromInt(1), delta), FMul(Dec(5, -1), FMul(delta, delta))))

\* np.power(x, k) for an integer k >= 0; 0.0 ** 0 is 1.0
RECURSIVE np_power(_, _)
np_power(x, k) == IF k = 0 THEN FromInt(1) ELSE FMul(x, np_power(x, k - 1))

\* scipy.special.eval_genlaguerre(k, alpha, x), by the three-term recurrence
RECURSIVE eval_genlaguerre(_, _, _)
eval_genlaguerre(k, alpha, x) ==
    IF k = 0 THEN FromInt(1)
    ELSE IF k = 1 THEN FSub(FromInt(1 + alpha), x)
    ELSE FDiv(FSub(FMul(FSub(FromInt(2 * k - 1 + alpha), x), eval_genlaguerre(k - 1, alpha, x)),
                   FMul(FromInt(k - 1 + alpha), eval_genlaguerre(k - 2, alpha, x))),
              FromInt(k))

\* An array [i \in 0..(N - 1) |-> ...] whose elements are computed once, not
\* once per access.
Array(a) == IF a = a THEN a ELSE a

Size(a) == Cardinality(DOMAIN a)

Min(j, k) == IF j < k THEN j ELSE k

Max(j, k) == IF j < k THEN k ELSE j

----------------------------------------------------------------------------
(* auto_settings.py, auto_extent_a0.  Radii are floats in units of the Bohr *)
(* radius and radial values floats in units of the positive constant        *)
(* prefactor * norm of radial_wavefunction: the comparisons, signs and      *)
(* ratios that auto_extent_a0 computes are the same in every positive unit. *)
(* Arrays are indexed from 0, as in the code.                               *)

SAMPLES == 12000

\* The value of the term R_{n,l}(r) that radial_wavefunction returns:
\* exp(-rho / 2) * rho^l * L_{n-l-1}^{2l+1}(rho) with rho = 2 r / (n a0).
RadialValue(R) ==
    LET rho == FDiv(FMul(FromInt(2), R.r), FromInt(R.n))
    IN FMul(FMul(np_exp_minus(FMul(rho, Dec(5, -1))), np_power(rho, R.l)),
            eval_genlaguerre(R.n - R.l - 1, 2 * R.l + 1, rho))

\* np.linspace(0.0, stop, num), stop in units of a0, num >= 2: i * step with
\* step = stop / (num - 1).  The element is taken as the rounded quotient
\* i * stop / (num - 1): in binary doubles the radii that are whole numbers
\* of a0 come out exact (r[923] = 156 a0 for n = 13 and 12000 samples), which
\* a step rounded to eight decimal digits would lose.
np_linspace_a0(stop, num) ==
    [i \in 0..(num - 1) |->
        IF i = num - 1 THEN stop ELSE FDiv(FMul(FromInt(i), stop), FromInt(num - 1))]

np_clip_upper_only(v, lo, hi) == FMin(v, hi)

np_clip_lower_only(v, lo, hi) == FMax(v, lo)

np_clip_swapped(v, lo, hi) == FMin(FMax(v, hi), lo)

\* np.clip(v, lo, hi) is minimum(maximum(v, lo), hi)
np_clip(v, lo, hi) == FMin(FMax(v, lo), hi)

RECURSIVE RangeMax(_, _, _)
RangeMax(a, lo, hi) ==
    IF lo = hi THEN a[lo]
    ELSE FMax(RangeMax(a, lo, (lo + hi) \div 2), RangeMax(a, ((lo + hi) \div 2) + 1, hi))

\* np.nanmax(a) of a non-empty array without nan
np_nanmax(a) == RangeMax(a, 0, Size(a) - 1)

RECURSIVE FirstTrue(_, _, _)
FirstTrue(mask, lo, hi) ==
    IF lo = hi THEN (IF mask[lo] THEN lo ELSE -1)
    ELSE LET left == FirstTrue(mask, lo, (lo + hi) \div 2)
         IN IF left # -1 THEN left ELSE FirstTrue(mask, ((lo + hi) \div 2) + 1, hi)

RECURSIVE LastTrue(_, _, _)
LastTrue(mask, lo, hi) ==
    IF lo = hi THEN (IF mask[lo] THEN lo ELSE -1)
    ELSE LET right == LastTrue(mask, ((lo + hi) \div 2) + 1, hi)
         IN IF right # -1 THEN right ELSE LastTrue(mask, lo, (lo + hi) \div 2)

np_where_first(mask) == FirstTrue(mask, 0, Size(mask) - 1)

\* np.where(mask)[0][-1], or -1 when np.where(mask)[0].size == 0
np_where_last(mask) == LastTrue(mask, 0, Size(mask) - 1)

np_searchsorted_last(a, v) == Size(a) - 1

\* np.searchsorted(a, v) of a non-decreasing array: the number of elements
\* below v, the first index i with a[i] >= v
np_searchsorted(a, v) == Cardinality({i \in DOMAIN a : FLess(a[i], v)})

IsDensityLike(mode) == mode \in {"density", "radial_distribution"}

\* Lines 76-80.
max_extent(n, l, mode) ==
    IF IsDensityLike(mode)
    THEN FMax(FromInt(10), FMul(FromInt(8), FromInt(n)))
    ELSE FMax(FromInt(10), FMul(FAdd(FromInt(6), FMul(FromInt(2), FromInt(l))), FromInt(n)))

normalized_cumulative_by_total(r, radial) ==
    LET last == Size(r) - 1
        density == [i \in DOMAIN r |->
                       FMul(FMul(r[i], r[i]), FMul(FAbs(radial[i]), FAbs(radial[i])))]
        dr == FSub(r[1], r[0])
        cumulative[k \in DOMAIN r] ==
            IF k = 0 THEN Float(0, 0)
            ELSE FAdd(cumulative[k - 1],
                      FMul(FMul(FAdd(density[k - 1], density[k]), Dec(5, -1)), dr))
    IN [k \in DOMAIN r |-> FDiv(cumulative[k], cumulative[last])]

\* Lines 42-47: the cumulative trapezoid sums of r^2 |R|^2 over their total.
normalized_cumulative(r, radial) ==
    LET last == Size(r) - 1
        density == [i \in DOMAIN r |->
                       FMul(FMul(r[i], r[i]), FMul(FAbs(radial[i]), FAbs(radial[i])))]
        dr == FSub(r[1], r[0])
        cumulative[k \in DOMAIN r] ==
            IF k = 0 THEN Float(0, 0)
            ELSE FAdd(cumulative[k - 1],
                      FMul(FMul(FAdd(density[k - 1], density[k]), Dec(5, -1)), dr))
        total == IF FLess(Float(0, 0), cumulative[last]) THEN cumulative[last] ELSE FromInt(1)
    IN [k \in DOMAIN r |-> FDiv(cumulative[k], total)]

\* Lines 41-50: the radius that encloses the coverage of r^2 |R|^2.
density_extent(coverage, r, radial) ==
    LET last == Size(r) - 1
        normalized == normalized_cumulative(r, radial)
        idx == Min(Max(np_searchsorted(normalized, coverage), 1), last)
    IN FMul(Dec(115, -2), r[idx])

\* Lines 66-69: int(node_candidates[-1]), or -1 when node_candidates.size is 0.
last_node_candidate(radial) ==
    LET sign == [i \in DOMAIN radial |-> FSign(radial[i])]
    IN np_where_last([i \in 0..(Size(radial) - 2) |-> sign[i] * sign[i + 1] < 0])

\* Lines 51-72: the support of |R| and its outermost node.
signed_extent(r, radial) ==
    LET abs_radial == [i \in DOMAIN radial |-> FAbs(radial[i])]
        peak == np_nanmax(abs_radial)
    IN IF FLeq(peak, Float(0, 0))
       THEN FromInt(6)
       ELSE LET cutoff == FMul(peak, Dec(2, -3))
                significant == np_where_last([i \in DOMAIN radial |-> FLeq(cutoff, abs_radial[i])])
                support_radius == IF significant = -1 THEN FromInt(4) ELSE r[significant]
                node_candidates == last_node_candidate(radial)
            IN IF node_candidates # -1
               THEN FMax(FMul(Dec(125, -2), support_radius),
                         FMul(Dec(18, -1), r[node_candidates]))
               ELSE FMul(Dec(125, -2), support_radius)

\* Lines 34 and 41-81 of auto_extent_a0, for the sampled radii r and the
\* values radial of radial_wavefunction at them.
auto_extent_of_samples(n, l, mode, coverage, r, radial) ==
    LET raw_extent == IF IsDensityLike(mode)
                      THEN density_extent(np_clip(coverage, Dec(95, -2), Dec(999, -3)), r, radial)
                      ELSE signed_extent(r, radial)
    IN np_clip(raw_extent, FromInt(4), max_extent(n, l, mode))

\* Lines 37-39: the radial function on 12000 radii up to 12 n^2 a0.
auto_extent_a0(n, l, mode, coverage) ==
    LET r == Array(np_linspace_a0(FromInt(12 * n * n), SAMPLES))
        called == radial_wavefunction(n, l, r)
    IN IF called.status # "ok" THEN called
       ELSE Return(auto_extent_of_samples(n, l, mode, coverage, r,
                       Array([i \in DOMAIN r |-> RadialValue(called.value[i])])))

----------------------------------------------------------------------------
(* auto_settings.py, auto_plane_and_value.  The lattice of a candidate      *)
(* plane is sampled at its centre and its extremes, where every angle is a  *)
(* multiple of pi/4.  A field value is kept as the pair of facts "its real  *)
(* part is non-zero" and "its imaginary part is non-zero" (1 or 0): the     *)
(* zeros of rho^l, of P_l^m(cos theta) and of cos and sin of the phase are  *)
(* the zeros of the field.  A score is an integer that stands for the float *)
(* peak + spread: a field that vanishes on the whole plane scores 0.0 or a  *)
(* rounding residue, any other field scores above every residue; which of   *)
(* two scores of one kind is the larger is not determined by the model.     *)

AutoPlanePoints == 3     \* stands for points=121: centre and extremes

candidates == <<"z", "x", "y">>

np_ravel(a) ==
    [k \in 1..(Len(a) * Len(a)) |-> a[((k - 1) \div Len(a)) + 1][((k - 1) % Len(a)) + 1]]

\* A coordinate array in units of the Bohr radius (whole numbers on the
\* sampled lattice).
Coordinates(a) == [k \in DOMAIN a |-> a[k].coef[1]]

\* An angle of the sampled lattice in units of pi/4.
QuarterTurns(angle) ==
    [k \in DOMAIN angle |->
        IF angle[k].kind = "zero" THEN 0
        ELSE IF angle[k].kind = "half_pi" THEN 2
        ELSE IF angle[k].kind = "pi" THEN 4
        ELSE IF angle[k].kind = "minus_half_pi" THEN -2
        ELSE IF angle[k].kind = "arccos" THEN (IF angle[k].a > 0 THEN 1 ELSE 3)
        ELSE IF angle[k].a > 0 THEN (IF angle[k].b > 0 THEN 1 ELSE 3)
        ELSE (IF angle[k].b > 0 THEN -1 ELSE -3)]

\* np.power(rho, l) at rho = 0
RadialVanishes(R) == R.r.sq = 0 /\ R.l > 0

LegendreVanishes_ignoring_parity(l, m_abs, theta) ==
    theta \in {0, 4} /\ m_abs > 0

\* lpmv(m_abs, l, cos(theta)): sin(theta)^m_abs is a factor, and P_l^m is
\* odd in cos(theta) when l - m_abs is odd.
LegendreVanishes(l, m_abs, theta) ==
    \/ theta \in {0, 4} /\ m_abs > 0
    \/ theta = 2 /\ (l - m_abs) % 2 = 1

CosVanishes(phase) == phase \in {2, 6}

SinVanishes(phase) == phase \in {0, 4}

\* The non-zero parts of the elements of psi.
Support(psi) ==
    [k \in DOMAIN psi |->
        LET Y == psi[k].angular
            zero == RadialVanishes(psi[k].radial) \/ LegendreVanishes(Y.l, Y.m_abs, Y.theta)
        IN Complex(IF zero \/ CosVanishes(Y.phase) THEN 0 ELSE 1,
                   IF zero \/ SinVanishes(Y.phase) THEN 0 ELSE 1)]

np_hypot(a, b) == [k \in DOMAIN a |-> IF a[k] = 0 /\ b[k] = 0 THEN 0 ELSE 1]

\* Lines 106-115 of one loop iteration: the field of the mode on the plane.
plane_field(plane, n, l, m, mode, extent_a0) ==
    LET grid == build_plane_grid(plane, 0, extent_a0, AutoPlanePoints)
    IN IF grid.status # "ok" THEN grid
       ELSE LET s == cartesian_to_spherical(Coordinates(np_ravel(grid.value.x)),
                                            Coordinates(np_ravel(grid.value.y)),
                                            Coordinates(np_ravel(grid.value.z)))
                psi == hydrogen_wavefunction(n, l, m, s.r,
                                             QuarterTurns(s.theta), QuarterTurns(s.phi))
            IN IF psi.status # "ok" THEN psi
               ELSE LET mode_data == evaluate_mode(Support(psi.value), mode)
                    IN IF mode_data.status # "ok" THEN mode_data
                       ELSE IF mode = "real_imag"
                       THEN Return(np_hypot(mode_data.value[1], mode_data.value[2]))
                       ELSE Return(mode_data.value)

Vanishes(field) == \A k \in DOMAIN field : field[k] = 0

\* peak + spread of lines 118-120, up to the order of scores of one kind.
PlaneScores(field) ==
    IF Vanishes(field) THEN 0..MaxScore ELSE (MaxScore + 1)..(2 * MaxScore + 1)

LoopOrder_as_completed(completed) == completed

\* for plane in candidates: the loop visits the planes in the fixed order,
\* in whatever order their fields were evaluated.
LoopOrder(completed) == candidates

RECURSIVE auto_plane_loop_later_wins_ties(_, _, _, _)
auto_plane_loop_later_wins_ties(visit, score, best_plane, best_score) ==
    IF visit = <<>> THEN best_plane
    ELSE IF score[Head(visit)] >= best_score
         THEN auto_plane_loop_later_wins_ties(Tail(visit), score, Head(visit), score[Head(visit)])
         ELSE auto_plane_loop_later_wins_ties(Tail(visit), score, best_plane, best_score)

\* Lines 105-124: if score > best_score, the plane becomes the best one.
RECURSIVE auto_plane_loop(_, _, _, _)
auto_plane_loop(visit, score, best_plane, best_score) ==
    IF visit = <<>> THEN best_plane
    ELSE IF score[Head(visit)] > best_score
         THEN auto_plane_loop(Tail(visit), score, Head(visit), score[Head(visit)])
         ELSE auto_plane_loop(Tail(visit), score, best_plane, best_score)

----------------------------------------------------------------------------
(* Input sets.                                                              *)

QInts == (-MaxNeg)..MaxN

ValueLists == SeqsUpTo(QInts, MaxValues)

\* Sample points (r, theta, phi) and the coordinate arrays built from them.
SamplePoints == {<<0, 0, 0>>, <<1, 1, 1>>, <<2, 2, 3>>}

PointArrays == SeqsUpTo(SamplePoints, MaxLen)

Column(pts, k) == [i \in DOMAIN pts |-> pts[i][k]]

ComplexSamples == {Complex(re, im) : re \in (-MaxAbs)..MaxAbs, im \in (-MaxAbs)..MaxAbs}

Fields == SeqsUpTo(ComplexSamples, MaxLen)

Modes == {"density", "real", "imag", "real_imag",
          "radial_distribution", "spherical_harmonic", "bogus"}

Scales == {"auto", "linear", "log", "symlog", "bogus"}

Planes == {"x", "y", "z"}

PlaneInputs == Planes \cup {"w"}

Extents == (-1)..MaxExtent

PointCounts == (-1)..MaxPoints

PlaneValues == (-1)..1

\* Cartesian sample points, the origin and the axes among them.
CartesianSamples == {<<x, y, z>> : x \in (-1)..1, y \in (-1)..1, z \in (-1)..1}

CartesianArrays == SeqsUpTo(CartesianSamples, MaxLen)

\* Quantum numbers passed to auto_plane_and_value: the valid ones, n = 0 and
\* l = n.
PlaneQuantumInputs ==
    {q \in (0..MaxN) \X (0..MaxN) \X ((-MaxN)..MaxN) : q[2] <= q[1] /\ Abs(q[3]) <= q[2]}

PlaneExtents == {0, 1, 2 * 4}

\* Quantum numbers passed to auto_extent_a0: the valid ones, n = 0 and l = n.
ExtentQuantumInputs == {q \in (0..2) \X (0..2) : q[2] <= q[1]}

ExtentModes == {"density", "radial_distribution", "real", "bogus"}

Coverages == {Dec(5, -1), Dec(99, -2), FromInt(2)}

\* Values of the radial function at the sampled radii: every array of up to
\* MaxSamples values out of -0.001 (below the cutoff 0.002 of a peak 1.0),
\* 0.0 and 1.0.
SampledRadials ==
    UNION {[0..(k - 1) -> {Dec(-1, -3), FromInt(0), FromInt(1)}] : k \in 2..MaxSamples}

\* The orbitals whose extent is computed on the 12000 radii of the code.
TestOrbitals == {<<1, 0>>, <<3, 0>>, <<3, 1>>, <<4, 2>>, <<13, 11>>}

----------------------------------------------------------------------------
(* Actions: one per call.  A behaviour is one call from the initial state:   *)
(* the functions are pure, so calls do not influence one another.           *)

Init ==
    /\ op = "init"
    /\ args = <<>>
    /\ ret = Return(<<>>)
    /\ values = <<>>
    /\ pc = "idle"
    /\ locals = <<>>
    /\ calls = <<>>
    /\ app = <<>>

\* The caller builds the list of positional integers (argparse nargs="*").
ReadQuantumNumberArgs ==
    /\ op = "init"
    /\ \E v \in ValueLists :
        /\ values' = v
        /\ op' = "read_args"
        /\ args' = <<>>
        /\ ret' = Return(<<>>)
        /\ UNCHANGED workflow

\* parse_quantum_numbers(values): padding builds a new list, the caller's
\* list object is not assigned to.
ParseQuantumNumbers ==
    /\ op = "read_args"
    /\ op' = "parse_quantum_numbers"
    /\ args' = values
    /\ ret' = parse_quantum_numbers(values)
    /\ UNCHANGED <<values, workflow>>

RadialWavefunction ==
    /\ op = "init"
    /\ \E n \in QInts, l \in QInts, pts \in PointArrays :
        /\ op' = "radial_wavefunction"
        /\ args' = [n |-> n, l |-> l, r |-> Column(pts, 1)]
        /\ ret' = radial_wavefunction(n, l, Column(pts, 1))
        /\ UNCHANGED <<values, workflow>>

SphericalHarmonic ==
    /\ op = "init"
    /\ \E l \in QInts, m \in QInts, pts \in PointArrays :
        /\ op' = "spherical_harmonic"
        /\ args' = [l |-> l, m |-> m, theta |-> Column(pts, 2), phi |-> Column(pts, 3)]
        /\ ret' = spherical_harmonic(l, m, Column(pts, 2), Column(pts, 3))
        /\ UNCHANGED <<values, workflow>>

HydrogenWavefunction ==
    /\ op = "init"
    /\ \E n \in QInts, l \in QInts, m \in QInts, pts \in PointArrays :
        /\ op' = "hydrogen_wavefunction"
        /\ args' = [n |-> n, l |-> l, m |-> m, r |-> Column(pts, 1),
                    theta |-> Column(pts, 2), phi |-> Column(pts, 3)]
        /\ ret' = hydrogen_wavefunction(n, l, m, Column(pts, 1), Column(pts, 2), Column(pts, 3))
        /\ UNCHANGED <<values, workflow>>

EvaluateMode ==
    /\ op = "init"
    /\ \E psi \in Fields, mode \in Modes :
        /\ op' = "evaluate_mode"
        /\ args' = [psi |-> psi, mode |-> mode]
        /\ ret' = evaluate_mode(psi, mode)
        /\ UNCHANGED <<values, workflow>>

ResolveScale ==
    /\ op = "init"
    /\ \E mode \in Modes, scale \in Scales :
        /\ op' = "resolve_scale"
        /\ args' = [mode |-> mode, scale |-> scale]
        /\ ret' = Return(resolve_scale(mode, scale))
        /\ UNCHANGED <<values, workflow>>

BuildPlaneGrid ==
    /\ op = "init"
    /\ \E plane \in PlaneInputs, value_a0 \in PlaneValues, extent_a0 \in Extents, points \in PointCounts :
        /\ op' = "build_plane_grid"
        /\ args' = [plane |-> plane, value_a0 |-> value_a0,
                    extent_a0 |-> extent_a0, points |-> points]
        /\ ret' = build_plane_grid(plane, value_a0, extent_a0, points)
        /\ UNCHANGED <<values, workflow>>

CartesianToSpherical ==
    /\ op = "init"
    /\ \E pts \in CartesianArrays :
        /\ op' = "cartesian_to_spherical"
        /\ args' = [x |-> Column(pts, 1), y |-> Column(pts, 2), z |-> Column(pts, 3)]
        /\ ret' = Return(cartesian_to_spherical(Column(pts, 1), Column(pts, 2), Column(pts, 3)))
        /\ UNCHANGED <<values, workflow>>

\* auto_plane_and_value(n, l, m, mode, extent_a0) is entered: best_plane and
\* best_score are initialised, no candidate is evaluated yet.
AutoPlaneAndValue ==
    /\ op = "init"
    /\ \E q \in PlaneQuantumInputs, mode \in Modes, extent_a0 \in PlaneExtents :
        /\ op' = "auto_plane_and_value"
        /\ args' = [n |-> q[1], l |-> q[2], m |-> q[3], mode |-> mode, extent_a0 |-> extent_a0]
        /\ ret' = Return(<<>>)
        /\ pc' = "scoring"
        /\ locals' = [score |-> [p \in {} |-> 0], completed |-> <<>>]
        /\ UNCHANGED <<values, calls, app>>

\* The field of one candidate is evaluated and scored.  The evaluation reads
\* the plane and the arguments only, so the candidates are evaluated in any
\* order; an exception of the evaluation leaves the function.
EvaluatePlane ==
    /\ op = "auto_plane_and_value"
    /\ pc = "scoring"
    /\ \E plane \in Planes \ DOMAIN locals.score :
        LET field == plane_field(plane, args.n, args.l, args.m, args.mode, args.extent_a0)
        IN IF field.status # "ok"
           THEN /\ ret' = field
                /\ pc' = "raised"
                /\ UNCHANGED locals
           ELSE /\ \E score \in PlaneScores(field.value) :
                     locals' = [score |-> (plane :> score) @@ locals.score,
                                completed |-> Append(locals.completed, plane)]
                /\ UNCHANGED <<ret, pc>>
    /\ UNCHANGED <<op, args, values, calls, app>>

\* The comparisons of the loop and return best_plane, 0.0.
SelectPlane ==
    /\ op = "auto_plane_and_value"
    /\ pc = "scoring"
    /\ DOMAIN locals.score = Planes
    /\ ret' = Return(<<auto_plane_loop(LoopOrder(locals.completed), locals.score, "z", -1), 0>>)
    /\ pc' = "returned"
    /\ UNCHANGED <<op, args, values, locals, calls, app>>

\* auto_extent_a0 from line 41 on, for radii np.linspace(0.0, r_max, num)
\* and every array radial_wavefunction may have returned at them.
AutoExtentOfSamples ==
    /\ op = "init"
    /\ \E q \in ExtentQuantumInputs, mode \in ExtentModes, coverage \in Coverages,
          radial \in SampledRadials :
        LET r == np_linspace_a0(FromInt(12 * q[1] * q[1]), Size(radial))
            called == radial_wavefunction(q[1], q[2], r)
        IN /\ op' = "auto_extent_a0_of_samples"
           /\ args' = [n |-> q[1], l |-> q[2], mode |-> mode, coverage |-> coverage,
                       radial |-> radial]
           /\ ret' = IF called.status # "ok" THEN called
                     ELSE Return(auto_extent_of_samples(q[1], q[2], mode, coverage, r, radial))
           /\ UNCHANGED <<values, workflow>>

\* auto_extent_a0(n, l, "real"), coverage at its default 0.99.
AutoExtentA0 ==
    /\ op = "init"
    /\ \E q \in TestOrbitals :
        /\ op' = "auto_extent_a0"
        /\ args' = [n |-> q[1], l |-> q[2], mode |-> "real", coverage |-> Dec(99, -2)]
        /\ ret' = auto_extent_a0(q[1], q[2], "real", Dec(99, -2))
        /\ UNCHANGED <<values, workflow>>

Next ==
    \/ ReadQuantumNumberArgs
    \/ ParseQuantumNumbers
    \/ RadialWavefunction
    \/ SphericalHarmonic
    \/ HydrogenWavefunction
    \/ EvaluateMode
    \/ ResolveScale
    \/ BuildPlaneGrid
    \/ CartesianToSpherical
    \/ AutoPlaneAndValue
    \/ EvaluatePlane
    \/ SelectPlane
    \/ AutoExtentOfSamples

Spec == Init /\ [][Next]_vars

\* The calls of auto_extent_a0 alone, those on the 12000 radii among them.
NextExtent ==
    \/ AutoExtentOfSamples
    \/ AutoExtentA0

SpecExtent == Init /\ [][NextExtent]_vars

----------------------------------------------------------------------------
(* The boundary callers: cli.py main and gui.py OrbitalApp.  calls is the   *)
(* sequence of the calls made by the workflow step(s) that led to the       *)
(* state, each with the keyword arguments the properties below read; the    *)
(* arrays passed between the numeric functions are not kept.                *)

Call(fn, kw) == [fn |-> fn, kw |-> kw]

None == <<>>

Some(v) == <<v>>

MIN_POINTS == 25

DIALOG_MIN_POINTS == 50

DEFAULT_POINTS == 401

ModeChoices == {"density", "real", "imag", "real_imag", "radial_distribution",
                "spherical_harmonic"}

PlaneChoices == {"auto", "x", "y", "z"}

ScaleChoices == {"auto", "linear", "log", "symlog"}

\* auto_extent_a0 returns np.clip(raw_extent, 4.0, max_extent): the ends of
\* that range stand for its values.
AutoExtents(n, l, mode) == {FromInt(4), max_extent(n, l, mode)}

\* auto_plane_and_value returns one of its candidates and the value 0.0.
AutoPlanes == {candidates[i] : i \in DOMAIN candidates}

\* cli.py lines 259-262: the usage error for the resolved scale, if any.
main_scale_error(mode, scale) ==
    IF mode = "density" /\ scale = "symlog"
    THEN Some("--scale symlog is for signed fields; use linear or log for density.")
    ELSE IF mode \in {"real", "imag", "real_imag"} /\ scale = "log"
    THEN Some("--scale log cannot represent signed fields; use linear or symlog.")
    ELSE None

\* Command lines argparse accepts (the choices of --mode, --plane and --scale
\* are enforced by parse_args).
CliQuantumNumbers == {<<>>, <<0>>, <<1>>, <<2, 1>>, <<2, 1, -1>>, <<1, 1>>, <<2, 1, 0, 0>>}

CliValues == {None, Some(FromInt(1))}

CliExtents == {None, Some(FromInt(-1)), Some(Float(0, 0)), Some(FromInt(8))}

CliPoints == {MIN_POINTS - 1, MIN_POINTS, DEFAULT_POINTS}

\* parser.error(message) prints the usage and exits with status 2.
ParserError(message) == Raise("SystemExit", message)

\* Lines 129-130.
CliParseArgs ==
    /\ op = "init"
    /\ \E quantum_numbers \in CliQuantumNumbers, mode \in ModeChoices, plane \in PlaneChoices,
          value \in CliValues, extent \in CliExtents, points \in CliPoints,
          scale \in ScaleChoices :
        /\ op' = "main"
        /\ args' = [quantum_numbers |-> quantum_numbers, mode |-> mode, plane |-> plane,
                    value |-> value, extent |-> extent, points |-> points, scale |-> scale]
        /\ pc' = "parsed"
        /\ UNCHANGED <<ret, values, locals, calls, app>>

\* Lines 132-139.
CliParseQuantumNumbers ==
    /\ op = "main" /\ pc = "parsed"
    /\ IF args.quantum_numbers = <<>>
       THEN /\ calls' = Append(calls, Call("print_help", None))
            /\ pc' = "returned"
            /\ ret' = Return(None)
            /\ UNCHANGED locals
       ELSE LET qn == parse_quantum_numbers(args.quantum_numbers)
                called == Append(calls, Call("parse_quantum_numbers",
                                             [values |-> args.quantum_numbers]))
            IN IF qn.status # "ok"
               THEN /\ calls' = Append(called, Call("parser.error", [message |-> qn.value]))
                    /\ pc' = "exited"
                    /\ ret' = ParserError(qn.value)
                    /\ UNCHANGED locals
               ELSE /\ calls' = called
                    /\ pc' = "validated"
                    /\ locals' = [qn |-> qn.value]
                    /\ UNCHANGED ret
    /\ UNCHANGED <<op, args, values, app>>

main_points_error_negative_only(points) ==
    IF points < 0
    THEN Some("--points must be at least 25 for stable contour plotting.")
    ELSE None

\* Lines 141-142: the message of the usage error for args.points, or None.
main_points_error(points) ==
    IF points < MIN_POINTS
    THEN Some("--points must be at least 25 for stable contour plotting.")
    ELSE None

\* Lines 141-150.
CliResolveExtent ==
    /\ op = "main" /\ pc = "validated"
    /\ IF main_points_error(args.points) # None
       THEN /\ calls' = Append(calls, Call("parser.error",
                                          [message |-> main_points_error(args.points)[1]]))
            /\ pc' = "exited"
            /\ ret' = ParserError(main_points_error(args.points)[1])
            /\ UNCHANGED locals
       ELSE \E extent \in (IF args.extent # None THEN {args.extent[1]}
                           ELSE AutoExtents(locals.qn.n, locals.qn.l, args.mode)) :
            LET called == IF args.extent # None THEN calls
                          ELSE Append(calls, Call("auto_extent_a0",
                                   [n |-> locals.qn.n, l |-> locals.qn.l, mode |-> args.mode]))
            IN IF FLeq(extent, Float(0, 0))
               THEN /\ calls' = Append(called, Call("parser.error",
                                           [message |-> "--range must be positive."]))
                    /\ pc' = "exited"
                    /\ ret' = ParserError("--range must be positive.")
                    /\ UNCHANGED locals
               ELSE /\ calls' = called
                    /\ pc' = "ranged"
                    /\ locals' = [qn |-> locals.qn, extent |-> extent]
                    /\ UNCHANGED ret
    /\ UNCHANGED <<op, args, values, app>>

\* Lines 153-176.
CliPlotRadialDistribution ==
    /\ op = "main" /\ pc = "ranged"
    /\ args.mode = "radial_distribution"
    /\ calls' = calls \o
           <<Call("radial_wavefunction", [n |-> locals.qn.n, l |-> locals.qn.l,
                                          extent_a0 |-> locals.extent, points |-> args.points]),
             Call("plot_radial_distribution", None)>>
    /\ pc' = "returned"
    /\ ret' = Return(None)
    /\ UNCHANGED <<op, args, values, locals, app>>

\* Lines 179-221.
CliPlotSphericalHarmonic ==
    /\ op = "main" /\ pc = "ranged"
    /\ args.mode = "spherical_harmonic"
    /\ LET scale == resolve_scale("real", args.scale)
           called == Append(calls, Call("spherical_harmonic",
                                [l |-> locals.qn.l, m |-> locals.qn.m, points |-> args.points]))
       IN IF scale = "log"
          THEN /\ calls' = Append(called, Call("parser.error",
                      [message |-> "--scale log cannot represent signed spherical harmonics."]))
               /\ pc' = "exited"
               /\ ret' = ParserError("--scale log cannot represent signed spherical harmonics.")
          ELSE /\ calls' = Append(called, Call("plot_spherical_harmonic_dual",
                                                [scale |-> scale]))
               /\ pc' = "returned"
               /\ ret' = Return(None)
    /\ UNCHANGED <<op, args, values, locals, app>>

\* Lines 223-234.
CliSelectPlane ==
    /\ op = "main" /\ pc = "ranged"
    /\ args.mode \notin {"radial_distribution", "spherical_harmonic"}
    /\ \E plane \in (IF args.plane = "auto" THEN AutoPlanes ELSE {args.plane}) :
        /\ calls' = IF args.plane = "auto"
                    THEN Append(calls, Call("auto_plane_and_value",
                             [n |-> locals.qn.n, l |-> locals.qn.l, m |-> locals.qn.m,
                              mode |-> args.mode, extent_a0 |-> locals.extent]))
                    ELSE calls
        /\ locals' = [qn |-> locals.qn, extent |-> locals.extent, plane |-> plane,
                      value |-> IF args.value # None THEN args.value[1] ELSE Float(0, 0)]
    /\ pc' = "sliced"
    /\ UNCHANGED <<op, args, ret, values, app>>

\* Lines 246-255.
CliEvaluate ==
    /\ op = "main" /\ pc = "sliced"
    /\ calls' = calls \o
           <<Call("build_plane_grid", [plane |-> locals.plane, value_a0 |-> locals.value,
                                       extent_a0 |-> locals.extent, points |-> args.points]),
             Call("cartesian_to_spherical", None),
             Call("hydrogen_wavefunction", [n |-> locals.qn.n, l |-> locals.qn.l,
                                            m |-> locals.qn.m]),
             Call("evaluate_mode", [mode |-> args.mode])>>
    /\ pc' = "evaluated"
    /\ UNCHANGED <<op, args, ret, values, locals, app>>

\* Lines 256-305.
CliRender ==
    /\ op = "main" /\ pc = "evaluated"
    /\ LET scale == resolve_scale(args.mode, args.scale)
           error == main_scale_error(args.mode, scale)
       IN IF error # None
          THEN /\ calls' = Append(calls, Call("parser.error", [message |-> error[1]]))
               /\ pc' = "exited"
               /\ ret' = ParserError(error[1])
          ELSE /\ calls' = Append(calls,
                      Call(IF args.mode = "real_imag" THEN "plot_real_imag_dual"
                           ELSE "plot_single_panel",
                           [mode |-> args.mode, scale |-> scale]))
               /\ pc' = "returned"
               /\ ret' = Return(None)
    /\ UNCHANGED <<op, args, values, locals, app>>

----------------------------------------------------------------------------
(* gui.py.  app holds the Tk variables and attributes of OrbitalApp:        *)
(* settings (points and scale of AdvancedSettings; cmap, show_nodal and     *)
(* line_mode only style the drawing), the variables of the controls,        *)
(* _slider_after_id, the timers root.after has pending, the number of       *)
(* timers created so far, and the AdvancedDialog while it is open.          *)

\* float(text) of the texts the value entry is given.
python_float(text) ==
    CASE text = "0" -> Return(Float(0, 0))
      [] text = "2" -> Return(FromInt(2))
      [] OTHER -> Raise("ValueError", <<"could not convert string to float: ", text>>)

\* f"{value:g}"
format_g(value) ==
    CASE value = Float(0, 0) -> "0"
      [] value = FromInt(2) -> "2"
      [] OTHER -> "?"

GuiQuantumNumbers == {<<2, 1, 0>>, <<1, 1, 0>>}

GuiValueTexts == {"0", "abc"}

GuiPlanes == {"auto", "x"}

\* Texts typed into the grid-points entry of the dialog.
DialogPoints == {DIALOG_MIN_POINTS - 1, DIALOG_MIN_POINTS}

\* ttk.Scale(from_=4.0, to=80.0)
SliderRanges == {FromInt(4), FromInt(20)}

\* Lines 318-329.
plot_radial(n, l, extent, points) ==
    <<Call("radial_wavefunction", [n |-> n, l |-> l, extent_a0 |-> extent, points |-> points]),
      Call("ax.plot", None)>>

plot_spherical_harmonic_by_slice(l, m, points, scale) ==
    Return(<<Call("build_plane_grid", [plane |-> "z", value_a0 |-> Float(0, 0),
                                       extent_a0 |-> FromInt(1), points |-> points]),
             Call("evaluate_mode", [mode |-> "spherical_harmonic"]),
             Call("_draw_signed_field", [scale |-> "linear"])>>)

\* Lines 331-366: the calls made, or the ValueError raised.
plot_spherical_harmonic(l, m, points, scale) ==
    IF scale = "log"
    THEN Raise("ValueError", "Log scale is incompatible with signed spherical harmonics.")
    ELSE Return(<<Call("spherical_harmonic", [l |-> l, m |-> m, points |-> points]),
                  Call("_draw_signed_field", [scale |-> scale]),
                  Call("_draw_signed_field", [scale |-> scale])>>)

plot_slice_scale_unchecked(mode, scale) == Return(scale)

\* Lines 381-385: the scale _plot_slice draws with, or the ValueError raised.
plot_slice_scale(mode, scale) ==
    LET coerced == IF mode = "density" /\ scale = "symlog" THEN "linear" ELSE scale
    IN IF mode \in {"real", "imag", "real_imag"} /\ coerced = "log"
       THEN Raise("ValueError", "Log scale cannot represent signed fields. Use linear/symlog.")
       ELSE Return(coerced)

\* Lines 368-429, auto_plane being what auto_plane_and_value returns when it
\* is called: the calls made and the text left in value_var, or the
\* ValueError raised.
plot_slice(a, n, l, m, mode, extent, points, scale, value, auto_plane) ==
    LET checked == plot_slice_scale(mode, scale)
        auto == a.plane_var = "auto"
        plane == IF auto THEN auto_plane ELSE a.plane_var
        slice_value == IF auto THEN Float(0, 0) ELSE value
        selection == IF auto
                     THEN <<Call("auto_plane_and_value",
                                 [n |-> n, l |-> l, m |-> m, mode |-> mode,
                                  extent_a0 |-> extent])>>
                     ELSE <<>>
        evaluation == <<Call("build_plane_grid", [plane |-> plane, value_a0 |-> slice_value,
                                                   extent_a0 |-> extent, points |-> points]),
                        Call("cartesian_to_spherical", None),
                        Call("hydrogen_wavefunction", [n |-> n, l |-> l, m |-> m]),
                        Call("evaluate_mode", [mode |-> mode])>>
        signed == Call("_draw_signed_field", [scale |-> checked.value])
        drawing == IF mode = "real_imag" THEN <<signed, signed>>
                   ELSE IF mode = "density"
                   THEN <<Call("_draw_density_field", [scale |-> checked.value])>>
                   ELSE <<signed>>
    IN IF checked.status # "ok"
       THEN [status |-> checked.status, value |-> checked.value, value_var |-> a.value_var]
       ELSE [status |-> "ok", value |-> selection \o evaluation \o drawing,
             value_var |-> IF auto THEN format_g(slice_value) ELSE a.value_var]

showerror_always(show_errors, title) ==
    <<Call("messagebox.showerror", [title |-> title])>>

\* Lines 292-293 and 313-314: the dialog _plot_current shows for an error.
showerror(show_errors, title) ==
    IF show_errors THEN <<Call("messagebox.showerror", [title |-> title])>> ELSE <<>>

reset_slider_after_id_skipped(a) == a

\* Line 287.
reset_slider_after_id(a) == [a EXCEPT !.slider_after_id = None]

\* Lines 285-316: app, calls and the locals after _plot_current(show_errors).
plot_current(a, show_errors, auto_plane) ==
    LET a1 == reset_slider_after_id(a)
        qn == parse_quantum_numbers(a.qn_vars)
        parsing == <<Call("parse_quantum_numbers", [values |-> a.qn_vars])>>
        value == IF qn.status = "ok" THEN python_float(a.value_var) ELSE qn
        mode == a.mode_var
        extent == a.range_var
        points == a.settings.points
        scale == resolve_scale(IF mode = "spherical_harmonic" THEN "real" ELSE mode,
                               a.settings.scale)
        cleared == parsing \o <<Call("figure.clear", None)>>
        plotted == IF mode = "radial_distribution"
                   THEN [status |-> "ok",
                         value |-> plot_radial(qn.value.n, qn.value.l, extent, points),
                         value_var |-> a.value_var]
                   ELSE IF mode = "spherical_harmonic"
                   THEN LET drawn == plot_spherical_harmonic(qn.value.l, qn.value.m,
                                                             points, scale)
                        IN [status |-> drawn.status, value |-> drawn.value,
                            value_var |-> a.value_var]
                   ELSE plot_slice(a, qn.value.n, qn.value.l, qn.value.m, mode, extent,
                                   points, scale, value.value, auto_plane)
        l1 == [show_errors |-> show_errors, mode |-> mode, scale |-> scale,
               extent |-> extent, points |-> points]
    IN IF value.status # "ok"
       THEN [app |-> a1, calls |-> parsing \o showerror(show_errors, "Input error"),
             locals |-> [show_errors |-> show_errors], raised |-> TRUE]
       ELSE IF plotted.status # "ok"
       THEN [app |-> a1, calls |-> cleared \o showerror(show_errors, "Plot error"),
             locals |-> l1, raised |-> TRUE]
       ELSE [app |-> [a1 EXCEPT !.value_var = plotted.value_var],
             calls |-> cleared \o plotted.value \o <<Call("canvas.draw_idle", None)>>,
             locals |-> l1, raised |-> FALSE]

\* Lines 155-173: OrbitalApp before its first _plot_current().
NewOrbitalApp ==
    [settings |-> [points |-> DEFAULT_POINTS, scale |-> "linear"],
     qn_vars |-> <<2, 1, 0>>, mode_var |-> "real", plane_var |-> "auto",
     value_var |-> "0", range_var |-> FromInt(20), show_colorbar_var |-> FALSE,
     slider_after_id |-> None, after |-> {}, after_count |-> 0, dialog |-> None]

\* The step of the event loop that runs _plot_current(show_errors) on a.
RunPlotCurrent(a, show_errors) ==
    \E auto_plane \in (IF a.plane_var = "auto" THEN AutoPlanes ELSE {a.plane_var}) :
        LET done == plot_current(a, show_errors, auto_plane)
        IN /\ app' = done.app
           /\ calls' = done.calls
           /\ locals' = done.locals

\* OrbitalApp(root), lines 155-174.
GuiStart ==
    /\ op = "init"
    /\ op' = "gui"
    /\ pc' = "mainloop"
    /\ RunPlotCurrent(NewOrbitalApp, TRUE)
    /\ UNCHANGED <<args, ret, values>>

\* The user edits a control of the main window; no callback is bound to it.
EditQuantumNumbers ==
    /\ op = "gui" /\ pc = "mainloop"
    /\ \E q \in GuiQuantumNumbers : app' = [app EXCEPT !.qn_vars = q]
    /\ calls' = <<>>
    /\ locals' = <<>>
    /\ UNCHANGED <<op, args, ret, values, pc>>

EditMode ==
    /\ op = "gui" /\ pc = "mainloop"
    /\ \E mode \in ModeChoices : app' = [app EXCEPT !.mode_var = mode]
    /\ calls' = <<>>
    /\ locals' = <<>>
    /\ UNCHANGED <<op, args, ret, values, pc>>

EditPlane ==
    /\ op = "gui" /\ pc = "mainloop"
    /\ \E plane \in GuiPlanes : app' = [app EXCEPT !.plane_var = plane]
    /\ calls' = <<>>
    /\ locals' = <<>>
    /\ UNCHANGED <<op, args, ret, values, pc>>

EditValue ==
    /\ op = "gui" /\ pc = "mainloop"
    /\ \E text \in GuiValueTexts : app' = [app EXCEPT !.value_var = text]
    /\ calls' = <<>>
    /\ locals' = <<>>
    /\ UNCHANGED <<op, args, ret, values, pc>>

\* The Plot button, line 228.
PressPlot ==
    /\ op = "gui" /\ pc = "mainloop"
    /\ RunPlotCurrent(app, TRUE)
    /\ UNCHANGED <<op, args, ret, values, pc>>

\* The Colorbar checkbox, lines 221-226.
ToggleColorbar ==
    /\ op = "gui" /\ pc = "mainloop"
    /\ RunPlotCurrent([app EXCEPT !.show_colorbar_var = ~app.show_colorbar_var], FALSE)
    /\ UNCHANGED <<op, args, ret, values, pc>>

\* _on_slider, lines 257-262, after the scale has set range_var.
OnSlider ==
    /\ op = "gui" /\ pc = "mainloop"
    /\ app.after_count < MaxAfter
    /\ \E range \in SliderRanges :
        LET id == app.after_count + 1
            kept == IF app.slider_after_id # None
                    THEN app.after \ {app.slider_after_id[1]}
                    ELSE app.after
        IN /\ app' = [app EXCEPT !.range_var = range,
                                 !.after = kept \cup {id},
                                 !.after_count = id,
                                 !.slider_after_id = Some(id)]
           /\ calls' = (IF app.slider_after_id # None
                        THEN <<Call("root.after_cancel", [id |-> app.slider_after_id[1]])>>
                        ELSE <<>>)
                       \o <<Call("root.after", [id |-> id])>>
    /\ locals' = <<>>
    /\ UNCHANGED <<op, args, ret, values, pc>>

\* A timer of root.after expires, line 262; the event loop of wait_window
\* runs it too.
TimerFires ==
    /\ op = "gui"
    /\ \E id \in app.after :
        RunPlotCurrent([app EXCEPT !.after = app.after \ {id}], FALSE)
    /\ UNCHANGED <<op, args, ret, values, pc>>

\* _open_advanced up to wait_window, lines 264-267 and 66-125.
OpenAdvanced ==
    /\ op = "gui" /\ pc = "mainloop"
    /\ app' = [app EXCEPT !.dialog =
                  Some([mode |-> app.mode_var,
                        scale_var |-> IF app.mode_var = "density" /\ app.settings.scale = "symlog"
                                      THEN "linear" ELSE app.settings.scale])]
    /\ pc' = "wait_window"
    /\ calls' = <<>>
    /\ locals' = <<>>
    /\ UNCHANGED <<op, args, ret, values>>

\* Line 105.
scale_values(mode) ==
    IF mode = "density" THEN {"linear", "auto", "log"}
    ELSE {"linear", "auto", "log", "symlog"}

\* The user picks a scale in the read-only combobox or leaves it, fills in
\* the grid points and presses Apply: _apply, lines 132-149, and the rest of
\* _open_advanced, lines 268-270.
DialogApply ==
    /\ op = "gui" /\ pc = "wait_window"
    /\ \E scale \in scale_values(app.dialog[1].mode) \cup {app.dialog[1].scale_var},
          points \in DialogPoints :
        IF points < DIALOG_MIN_POINTS
        THEN /\ app' = [app EXCEPT !.dialog = Some([mode |-> app.dialog[1].mode,
                                                    scale_var |-> scale])]
             /\ calls' = <<Call("messagebox.showerror", [title |-> "Invalid value"])>>
             /\ locals' = <<>>
             /\ UNCHANGED pc
        ELSE /\ RunPlotCurrent([app EXCEPT !.dialog = None,
                                           !.settings = [points |-> points, scale |-> scale]],
                               TRUE)
             /\ pc' = "mainloop"
    /\ UNCHANGED <<op, args, ret, values>>

\* Cancel, line 124: dialog.result is None.
DialogCancel ==
    /\ op = "gui" /\ pc = "wait_window"
    /\ app' = [app EXCEPT !.dialog = None]
    /\ pc' = "mainloop"
    /\ calls' = <<>>
    /\ locals' = <<>>
    /\ UNCHANGED <<op, args, ret, values>>

NextWorkflow ==
    \/ CliParseArgs
    \/ CliParseQuantumNumbers
    \/ CliResolveExtent
    \/ CliPlotRadialDistribution
    \/ CliPlotSphericalHarmonic
    \/ CliSelectPlane
    \/ CliEvaluate
    \/ CliRender
    \/ GuiStart
    \/ EditQuantumNumbers
    \/ EditMode
    \/ EditPlane
    \/ EditValue
    \/ PressPlot
    \/ ToggleColorbar
    \/ OnSlider
    \/ TimerFires
    \/ OpenAdvanced
    \/ DialogApply
    \/ DialogCancel

SpecWorkflow == Init /\ [][NextWorkflow]_vars

\* The GUI alone.  Tk's event loop (mainloop, and the loop of wait_window
\* while the dialog is open) runs the callback of every timer whose delay
\* has passed, so a pending timer does not wait for ever: TimerFires is
\* weakly fair.  Nothing obliges the user to act.
NextGui ==
    \/ GuiStart
    \/ EditQuantumNumbers
    \/ EditMode
    \/ EditPlane
    \/ EditValue
    \/ PressPlot
    \/ ToggleColorbar
    \/ OnSlider
    \/ TimerFires
    \/ OpenAdvanced
    \/ DialogApply
    \/ DialogCancel

SpecGuiFair == Init /\ [][NextGui]_vars /\ WF_vars(TimerFires)

----------------------------------------------------------------------------
(* Properties.                                                              *)

\* The k-th positional value of a list, 0 when the list is shorter.
Nth(vals, k) == IF k <= Len(vals) THEN vals[k] ELSE 0

Rejected(vals) ==
    \/ Len(vals) < 1
    \/ Len(vals) > 3
    \/ Nth(vals, 1) < 1
    \/ Nth(vals, 2) < 0
    \/ Nth(vals, 2) > Nth(vals, 1) - 1
    \/ Nth(vals, 3) > Nth(vals, 2)
    \/ -Nth(vals, 3) > Nth(vals, 2)

\* C1: parse_quantum_numbers raises the invalid-quantum-numbers error
\* (ValueError, no value) exactly when the length is not in 1..3 or the
\* padded triple has n<1, l<0, l>n-1 or |m|>l; every QuantumNumbers it
\* returns has n>=1, 0<=l<=n-1 and -l<=m<=l.
C1_ParseRejectsExactlyInvalid ==
    op = "parse_quantum_numbers" =>
        /\ ret.status \in {"ok", "ValueError"}
        /\ (ret.status = "ValueError") <=> Rejected(args)
        /\ ret.status = "ok" =>
              /\ ret.value.n >= 1
              /\ 0 <= ret.value.l /\ ret.value.l <= ret.value.n - 1
              /\ -ret.value.l <= ret.value.m /\ ret.value.m <= ret.value.l

\* A valid triple with negative m is accepted, and a |m|>l triple rejected.
C1_Witness ==
    \/ op = "parse_quantum_numbers" /\ args = <<2, 1, -1>> /\ ret.status = "ok"
    \/ op = "parse_quantum_numbers" /\ args = <<1, 0, -1>> /\ ret.status = "ValueError"

\* C2: a list of 1 to 3 integers that passes validation is returned as
\* (n,l,m) taken positionally, missing trailing values being 0, and the
\* caller's list is the same after the call as it was passed.
C2_ParseReturnsPositionalValues ==
    (op = "parse_quantum_numbers" /\ ret.status = "ok") =>
        /\ Len(args) \in 1..3
        /\ ret.value = [n |-> Nth(args, 1), l |-> Nth(args, 2), m |-> Nth(args, 3)]
        /\ values = args

\* parse([2]) returned (2,0,0) and the caller still holds [2].
C2_Witness ==
    /\ op = "parse_quantum_numbers"
    /\ args = <<2>>
    /\ ret = Return([n |-> 2, l |-> 0, m |-> 0])
    /\ values = <<2>>

ValidNL(n, l) == n >= 1 /\ 0 <= l /\ l <= n - 1

ValidLM(l, m) == 0 <= l /\ -l <= m /\ m <= l

\* C3: radial_wavefunction, spherical_harmonic and hydrogen_wavefunction
\* raise the invalid-quantum-numbers error (ValueError) whenever the quantum
\* numbers they are given violate n>=1, 0<=l<=n-1 or |m|<=l, and return a
\* value for valid quantum numbers.
C3_WavefunctionsRejectInvalidQuantumNumbers ==
    /\ op = "radial_wavefunction" =>
          IF ValidNL(args.n, args.l) THEN ret.status = "ok"
          ELSE ret.status = "ValueError"
    /\ op = "spherical_harmonic" =>
          IF ValidLM(args.l, args.m) THEN ret.status = "ok"
          ELSE ret.status = "ValueError"
    /\ op = "hydrogen_wavefunction" =>
          IF ValidNL(args.n, args.l) /\ ValidLM(args.l, args.m) THEN ret.status = "ok"
          ELSE ret.status = "ValueError"

SupportedModes == {"density", "real", "imag", "real_imag"}

\* C4: evaluate_mode raises the unsupported-mode error, carrying only its
\* message, for every mode other than density, real, imag and real_imag,
\* and returns a value for those four.
C4_EvaluateModeRejectsOtherModes ==
    op = "evaluate_mode" =>
        /\ ret.status \in {"ok", "ValueError"}
        /\ (ret.status = "ok") <=> (args.mode \in SupportedModes)
        /\ ret.status = "ValueError" =>
              ret.value = <<"Unsupported render mode: ", args.mode>>

\* radial_distribution over a non-empty field is rejected.
C4_Witness ==
    /\ op = "evaluate_mode"
    /\ args.mode = "radial_distribution"
    /\ Len(args.psi) > 0
    /\ ret.status = "ValueError"

ElementwiseOf(out, psi, f(_)) ==
    /\ DOMAIN out = DOMAIN psi
    /\ \A i \in DOMAIN psi : out[i] = f(psi[i])

SquaredMagnitude(z) == z.re * z.re + z.im * z.im

RealPart(z) == z.re

ImagPart(z) == z.im

\* C5: evaluate_mode returns elementwise |psi|^2 (never negative) for
\* density, Re(psi) for real, Im(psi) for imag and the pair (Re, Im) for
\* real_imag, each array having the shape of psi.
C5_EvaluateModeElementwise ==
    (op = "evaluate_mode" /\ ret.status = "ok") =>
        /\ args.mode = "density" =>
              /\ ElementwiseOf(ret.value, args.psi, SquaredMagnitude)
              /\ \A i \in DOMAIN ret.value : ret.value[i] >= 0
        /\ args.mode = "real" => ElementwiseOf(ret.value, args.psi, RealPart)
        /\ args.mode = "imag" => ElementwiseOf(ret.value, args.psi, ImagPart)
        /\ args.mode = "real_imag" =>
              /\ Len(ret.value) = 2
              /\ ElementwiseOf(ret.value[1], args.psi, RealPart)
              /\ ElementwiseOf(ret.value[2], args.psi, ImagPart)

\* real_imag of the one-element field [1 - i] gave ([1], [-1]).
C5_Witness ==
    /\ op = "evaluate_mode"
    /\ args.mode = "real_imag"
    /\ args.psi = <<[re |-> 1, im |-> -1]>>
    /\ ret = Return(<< <<1>>, <<-1>> >>)

\* C6 as stated: with requested scale "auto", resolve_scale returns "log"
\* when the mode is density or radial_distribution and "symlog" otherwise.
C6_AutoScaleLogForDensityLike ==
    (op = "resolve_scale" /\ args.scale = "auto") =>
        ret.value = (IF args.mode \in {"density", "radial_distribution"}
                     THEN "log" ELSE "symlog")

\* C6 amended: with requested scale "auto", resolve_scale returns "log"
\* when the mode is density and "symlog" for every other mode,
\* radial_distribution included.
C6_AutoScaleLogForDensityOnly ==
    (op = "resolve_scale" /\ args.scale = "auto") =>
        /\ ret.status = "ok"
        /\ args.mode = "density" => ret.value = "log"
        /\ args.mode # "density" => ret.value = "symlog"

\* "auto" for radial_distribution resolved to "symlog".
C6_Witness ==
    /\ op = "resolve_scale"
    /\ args = [mode |-> "radial_distribution", scale |-> "auto"]
    /\ ret.value = "symlog"

\* C7: resolve_scale never fails, and a requested scale other than "auto"
\* is returned unchanged for every mode, also when it does not suit the
\* mode (log with a signed mode, symlog with density).
C7_ResolveScalePassesThrough ==
    op = "resolve_scale" =>
        /\ ret.status = "ok"
        /\ args.scale # "auto" => ret.value = args.scale

\* symlog requested for density came back as symlog.
C7_Witness ==
    /\ op = "resolve_scale"
    /\ args = [mode |-> "density", scale |-> "symlog"]
    /\ ret = Return("symlog")

\* C8: build_plane_grid raises a domain error, returning no SliceGrid,
\* whenever extent_a0 <= 0 or points < 2.
C8_GridRejectsBadDomain ==
    (op = "build_plane_grid" /\ (args.extent_a0 <= 0 \/ args.points < 2)) =>
        ret.status # "ok"

Shape(a, points) ==
    /\ Len(a) = points
    /\ \A i \in DOMAIN a : Len(a[i]) = points

AllEqualTo(a, c) == \A i \in DOMAIN a : \A j \in DOMAIN a[i] : a[i][j] = c

LatticeInMetres(a, lattice) ==
    \A i \in DOMAIN lattice : \A j \in DOMAIN lattice[i] :
        a[i][j] = [coef |-> lattice[i][j], unit |-> BOHR_RADIUS]

\* C9: for a plane in {x,y,z} the named axis is held at value_a0 times the
\* Bohr radius and the lattice (u,v) times the Bohr radius lies on the other
\* two axes: x -> (y=u, z=v, labels Y,Z), y -> (x=u, z=v, labels X,Z),
\* z -> (x=u, y=v, labels X,Y); the five arrays are points x points.
C9_GridAxisAssignment ==
    (op = "build_plane_grid" /\ ret.status = "ok" /\ args.plane \in Planes) =>
        LET g == ret.value
            fixed == [coef |-> <<args.value_a0, 1>>, unit |-> BOHR_RADIUS]
        IN /\ Shape(g.u, args.points) /\ Shape(g.v, args.points)
           /\ Shape(g.x, args.points) /\ Shape(g.y, args.points)
           /\ Shape(g.z, args.points)
           /\ args.plane = "x" =>
                 /\ AllEqualTo(g.x, fixed)
                 /\ LatticeInMetres(g.y, g.u) /\ LatticeInMetres(g.z, g.v)
                 /\ g.u_label = "Y" /\ g.v_label = "Z"
           /\ args.plane = "y" =>
                 /\ AllEqualTo(g.y, fixed)
                 /\ LatticeInMetres(g.x, g.u) /\ LatticeInMetres(g.z, g.v)
                 /\ g.u_label = "X" /\ g.v_label = "Z"
           /\ args.plane = "z" =>
                 /\ AllEqualTo(g.z, fixed)
                 /\ LatticeInMetres(g.x, g.u) /\ LatticeInMetres(g.y, g.v)
                 /\ g.u_label = "X" /\ g.v_label = "Y"

\* A 3 x 3 grid on the plane y = 1 over [-2, 2] was built.
C9_Witness ==
    /\ op = "build_plane_grid"
    /\ args = [plane |-> "y", value_a0 |-> 1, extent_a0 |-> 2, points |-> 3]
    /\ ret.status = "ok"
    /\ ret.value.u_label = "X"
    /\ ret.value.x[1][3] = [coef |-> <<2, 1>>, unit |-> BOHR_RADIUS]

IsConstant(a) ==
    \A i \in DOMAIN a : \A j \in DOMAIN a[i] :
        \A k \in DOMAIN a : \A l \in DOMAIN a[k] : a[i][j] = a[k][l]

\* The a0-valued array is the uniform lattice over [-extent, extent] running
\* along the columns (along = "u") or along the rows (along = "v").
UniformLattice(a, extent, points, along) ==
    /\ points >= 1
    /\ Shape(a, points)
    /\ \A i \in DOMAIN a : \A j \in DOMAIN a[i] :
          LET k == IF along = "u" THEN j ELSE i
          IN a[i][j][1] * (points - 1) * a[1][1][2]
                = (a[1][1][1] * (points - 1) + 2 * extent * (k - 1) * a[1][1][2]) * a[i][j][2]
    /\ a[1][1] = <<-extent, 1>>
    /\ a[points][points] = <<extent, 1>>

\* C10: every SliceGrid that build_plane_grid returns has exactly one of
\* its x, y, z arrays constant, the other two varying over a uniform square
\* lattice spanning [-extent_a0, extent_a0] in units of a0.
C10_GridOneConstantAxis ==
    (op = "build_plane_grid" /\ ret.status = "ok") =>
        LET g == ret.value
        IN /\ Cardinality({c \in {"x", "y", "z"} : IsConstant(g[c])}) = 1
           /\ UniformLattice(g.u, args.extent_a0, args.points, "u")
           /\ UniformLattice(g.v, args.extent_a0, args.points, "v")

\* C11: cartesian_to_spherical never divides by zero and never yields NaN:
\* where r = 0 the division is by a substitute nonzero denominator and
\* theta is 0, so the origin maps to (r=0, theta=0, phi=0).
C11_SphericalSafeAtOrigin ==
    op = "cartesian_to_spherical" =>
        LET out == ret.value
            denominator == np_where_safe_r(out.r)
        IN /\ ret.status = "ok"
           /\ DOMAIN out.r = DOMAIN args.x
           /\ DOMAIN out.theta = DOMAIN args.x
           /\ DOMAIN out.phi = DOMAIN args.x
           /\ \A i \in DOMAIN args.x :
                 /\ denominator[i].sq # 0
                 /\ out.theta[i].kind \notin {"nan", "inf"}
                 /\ out.phi[i].kind \notin {"nan", "inf"}
                 /\ (args.x[i] = 0 /\ args.y[i] = 0 /\ args.z[i] = 0) =>
                       /\ out.r[i].sq = 0
                       /\ out.theta[i].kind = "zero"
                       /\ out.phi[i].kind = "zero"

\* The origin, next to a point off the origin, was converted.
C11_Witness ==
    /\ op = "cartesian_to_spherical"
    /\ args = [x |-> <<0, 1>>, y |-> <<0, 0>>, z |-> <<0, 1>>]
    /\ ret.value.r[1].sq = 0
    /\ ret.value.theta[1].kind = "zero"
    /\ ret.value.theta[2].kind = "arccos"

\* The imaginary part of R * sign * K * P * e^{i*phase} is R*sign*K*P*sin(phase):
\* it is exactly 0 when the phase factor is e^{0j} = 1.
PhaseFactorIsOne(z) == z.angular.phase = 0

\* C18: for valid (n,l) and m = 0, every element of
\* hydrogen_wavefunction(n,l,0,r,theta,phi) has zero imaginary part: its
\* azimuthal phase factor is exactly 1, whatever r, theta and phi are.
C18_MZeroIsReal ==
    (op = "hydrogen_wavefunction" /\ args.m = 0 /\ ValidNL(args.n, args.l)) =>
        /\ ret.status = "ok"
        /\ DOMAIN ret.value = DOMAIN args.r
        /\ \A i \in DOMAIN ret.value : PhaseFactorIsOne(ret.value[i])

\* The 2p, m=0 state was evaluated at a point with phi = 3*pi/4.
C18_Witness ==
    /\ op = "hydrogen_wavefunction"
    /\ args.n = 2 /\ args.l = 1 /\ args.m = 0
    /\ args.phi = <<3>>
    /\ ret.status = "ok"
    /\ ret.value[1].angular.phase = 0

\* (-1)^k times the complex conjugate of a wavefunction value: the radial
\* factor is real, the conjugate negates the phase.
SignedConjugate(k, z) ==
    [z EXCEPT !.angular.sign = (IF k % 2 = 0 THEN 1 ELSE -1) * z.angular.sign,
              !.angular.phase = (2 * 4 - z.angular.phase) % (2 * 4)]

\* C19: for valid (n,l,m), hydrogen_wavefunction(n,l,-m,...) equals
\* (-1)^|m| times the complex conjugate of hydrogen_wavefunction(n,l,m,...).
C19_NegativeMIsSignedConjugate ==
    (op = "hydrogen_wavefunction" /\ ValidNL(args.n, args.l) /\ ValidLM(args.l, args.m)) =>
        LET mirrored == hydrogen_wavefunction(args.n, args.l, -args.m,
                                              args.r, args.theta, args.phi)
        IN /\ ret.status = "ok"
           /\ mirrored.status = "ok"
           /\ DOMAIN mirrored.value = DOMAIN ret.value
           /\ \A i \in DOMAIN ret.value :
                 mirrored.value[i] = SignedConjugate(Abs(args.m), ret.value[i])

\* The 2p, m=-1 state was evaluated where its phase is not real.
C19_Witness ==
    /\ op = "hydrogen_wavefunction"
    /\ args.n = 2 /\ args.l = 1 /\ args.m = -1
    /\ args.phi = <<1>>
    /\ ret.status = "ok"
    /\ ret.value[1].angular.sign = -1
    /\ ret.value[1].angular.phase = 7

PlaneReturned == op = "auto_plane_and_value" /\ pc = "returned"

\* The place of a plane in the order of the candidates.
Priority(plane) == CHOOSE k \in DOMAIN candidates : candidates[k] = plane

\* C15: auto_plane_and_value returns (p, 0.0) where the score of p is the
\* maximum of the three scores and every plane before p in the order z, x, y
\* has a strictly smaller score (ties go to the earlier plane).
C15_EarliestMaximumIsChosen ==
    PlaneReturned =>
        /\ ret.status = "ok"
        /\ ret.value[2] = 0
        /\ \A q \in Planes : locals.score[q] <= locals.score[ret.value[1]]
        /\ \A q \in Planes :
              Priority(q) < Priority(ret.value[1]) => locals.score[q] < locals.score[ret.value[1]]

C15_Witness ==
    /\ PlaneReturned
    /\ locals.score["x"] = locals.score["y"]
    /\ locals.score["z"] < locals.score["x"]
    /\ ret.value[1] = "x"

Is2pzReal == args = [n |-> 2, l |-> 1, m |-> 0, mode |-> "real", extent_a0 |-> 8]

\* C16: when the score of the z=0 plane is lower than the score of the x=0 or
\* of the y=0 plane, z is not returned; auto_plane_and_value(2,1,0,"real",8.0)
\* returns x or y, with value 0.0.
C16_DegenerateZIsNotChosen ==
    PlaneReturned =>
        /\ (locals.score["z"] < locals.score["x"] \/ locals.score["z"] < locals.score["y"])
              => ret.value[1] # "z"
        /\ Is2pzReal => (ret.value[1] \in {"x", "y"} /\ ret.value[2] = 0)

C16_Witness ==
    /\ PlaneReturned
    /\ Is2pzReal
    /\ ret.value[1] \in {"x", "y"}

EarliestMaximum(score) ==
    CHOOSE p \in Planes :
        /\ \A q \in Planes : score[q] <= score[p]
        /\ \A q \in Planes : score[q] = score[p] => Priority(p) <= Priority(q)

\* C17: the score of a candidate is a score of the field of that plane for
\* the arguments, whichever candidates were evaluated before it, and the
\* plane returned is the earliest maximum of the three scores in the order
\* z, x, y for every order in which the candidates were evaluated.
C17_ResultIndependentOfEvaluationOrder ==
    (op = "auto_plane_and_value" /\ pc \in {"scoring", "returned"}) =>
        /\ \A p \in DOMAIN locals.score :
              locals.score[p] \in
                  PlaneScores(plane_field(p, args.n, args.l, args.m, args.mode, args.extent_a0).value)
        /\ pc = "returned" => ret.value[1] = EarliestMaximum(locals.score)

C17_Witness ==
    /\ PlaneReturned
    /\ locals.completed = <<"y", "x", "z">>
    /\ locals.score["x"] = locals.score["z"]
    /\ locals.score["y"] = locals.score["z"]
    /\ ret.value[1] = "z"

ExtentReturned == op \in {"auto_extent_a0", "auto_extent_a0_of_samples"}

Ceiling(n, l, mode) ==
    IF mode \in {"density", "radial_distribution"}
    THEN (IF 8 * n > 10 THEN 8 * n ELSE 10)
    ELSE (IF (6 + 2 * l) * n > 10 THEN (6 + 2 * l) * n ELSE 10)

C13_ExtentGrowsWithOrbital ==
    (op = "auto_extent_a0" /\ args.n = 1 /\ args.l = 0 /\ args.mode = "real") =>
        /\ ret.status = "ok"
        /\ FLess(Float(0, 0), ret.value)
        /\ FLess(ret.value, auto_extent_a0(3, 1, "real", args.coverage).value)

C13_Witness ==
    /\ op = "auto_extent_a0"
    /\ args.n = 1 /\ args.l = 0 /\ args.mode = "real"
    /\ ret.status = "ok"
    /\ FLess(ret.value, FromInt(10))

\* C14: auto_extent_a0(4, 2, "real") is at least 28.0 (and at most the
\* ceiling 40.0 of its clamp).
C14_ExtentOf4dNotClippedTightly ==
    (op = "auto_extent_a0" /\ args.n = 4 /\ args.l = 2 /\ args.mode = "real") =>
        /\ ret.status = "ok"
        /\ FLeq(FromInt(28), ret.value)
        /\ FLeq(ret.value, FromInt(40))

C14_Witness ==
    /\ op = "auto_extent_a0"
    /\ args.n = 4 /\ args.l = 2 /\ args.mode = "real"
    /\ ret.status = "ok"
    /\ FLeq(FromInt(28), ret.value)

RenderCalls == {"plot_single_panel", "plot_real_imag_dual", "plot_spherical_harmonic_dual",
                "_draw_signed_field", "_draw_density_field"}

WorkflowMode == IF op = "main" THEN args.mode ELSE locals.mode

\* C20: in the CLI main workflow and in the GUI plot workflow no render
\* call is made with scale "log" for a signed mode (real, imag, real_imag,
\* spherical_harmonic) nor with scale "symlog" for density mode, whatever
\* scale was requested; and no render call is ever handed the scale "auto".
C20_NoRenderWithIncompatibleScale ==
    \A i \in DOMAIN calls :
        calls[i].fn \in RenderCalls =>
            /\ WorkflowMode \in {"real", "imag", "real_imag", "spherical_harmonic"}
                   => calls[i].kw.scale # "log"
            /\ WorkflowMode = "density" => calls[i].kw.scale # "symlog"
            /\ calls[i].kw.scale # "auto"

\* The GUI draws a density slice with the scale coerced although symlog is
\* the scale of the settings.
C20_Witness ==
    /\ op = "gui"
    /\ app.settings.scale = "symlog"
    /\ \E i \in DOMAIN calls :
        /\ calls[i].fn = "_draw_density_field"
        /\ calls[i].kw.scale = "linear"

NumericCalls == {"auto_extent_a0", "auto_plane_and_value", "build_plane_grid",
                 "radial_wavefunction", "spherical_harmonic", "hydrogen_wavefunction"}

\* C21: in the CLI main workflow and in the GUI _plot_current, every call
\* of auto_extent_a0, auto_plane_and_value, build_plane_grid or a
\* wavefunction function comes after a call of parse_quantum_numbers on
\* values it accepts; when parse_quantum_numbers fails none of them is
\* called.
C21_QuantumNumbersValidatedFirst ==
    \A i \in DOMAIN calls :
        calls[i].fn \in NumericCalls =>
            /\ \E j \in 1..(i - 1) : calls[j].fn = "parse_quantum_numbers"
            /\ \A j \in DOMAIN calls :
                  calls[j].fn = "parse_quantum_numbers" => ~Rejected(calls[j].kw.values)

\* The GUI was given n = 1, l = 1: _plot_current stops after
\* parse_quantum_numbers.
C21_Witness ==
    /\ op = "gui"
    /\ calls # <<>>
    /\ calls[1].fn = "parse_quantum_numbers"
    /\ Rejected(calls[1].kw.values)
    /\ \A i \in DOMAIN calls : calls[i].fn \notin NumericCalls

\* The radii auto_extent_a0 samples for the quantum numbers and the number of
\* samples of the state.
SampledRadii ==
    IF op = "auto_extent_a0_of_samples"
    THEN np_linspace_a0(FromInt(12 * args.n * args.n), Size(args.radial))
    ELSE Array(np_linspace_a0(FromInt(12 * args.n * args.n), SAMPLES))

DensityLike == {"density", "radial_distribution"}

ClampedCoverage(c) ==
    IF FLess(c, Dec(95, -2)) THEN Dec(95, -2)
    ELSE IF FLess(Dec(999, -3), c) THEN Dec(999, -3)
    ELSE c

\* C22: for density-like modes the result of auto_extent_a0 for a coverage
\* c is its result for min(max(c, 0.95), 0.999); for the other modes the
\* result is the same for every coverage.
C22_CoverageClamped ==
    (op = "auto_extent_a0_of_samples" /\ ret.status = "ok") =>
        LET result(c) == auto_extent_of_samples(args.n, args.l, args.mode, c,
                                                SampledRadii, args.radial)
        IN IF args.mode \in DensityLike
           THEN ret.value = result(ClampedCoverage(args.coverage))
           ELSE \A c \in Coverages : ret.value = result(c)

\* Coverage 0.5 on samples whose cumulative probability reaches 0.5 at the
\* second radius: the extent is that of the third radius (13.8, clipped to
\* 10.0), as for coverage 0.95.
C22_Witness ==
    /\ op = "auto_extent_a0_of_samples"
    /\ args.n = 1 /\ args.l = 0 /\ args.mode = "density"
    /\ args.coverage = Dec(5, -1)
    /\ args.radial = [i \in 0..2 |-> IF i = 2 THEN FromInt(0) ELSE FromInt(1)]
    /\ ret.status = "ok"
    /\ ret.value = FromInt(10)

ClampedExtent(raw, n, l, mode) ==
    IF FLess(raw, FromInt(4)) THEN FromInt(4)
    ELSE IF FLess(FromInt(Ceiling(n, l, mode)), raw) THEN FromInt(Ceiling(n, l, mode))
    ELSE raw

\* C23: in density-like modes the unclamped extent of auto_extent_a0 is 1.15
\* times the radius at the smallest sample index where the normalized
\* cumulative probability is >= coverage, that index forced into
\* [1, last index]; the result is this extent clamped.
C23_DensityExtentAtFirstCoveringRadius ==
    (op = "auto_extent_a0_of_samples" /\ ret.status = "ok" /\ args.mode \in DensityLike) =>
        LET r == SampledRadii
            last == Size(r) - 1
            coverage == ClampedCoverage(args.coverage)
            normalized == normalized_cumulative(r, args.radial)
            covering == {i \in DOMAIN r : FLeq(coverage, normalized[i])}
            smallest == IF covering = {} THEN last + 1
                        ELSE CHOOSE i \in covering : \A j \in covering : i <= j
            forced == IF smallest < 1 THEN 1 ELSE IF smallest > last THEN last ELSE smallest
            raw_extent == FMul(Dec(115, -2), r[forced])
        IN /\ density_extent(coverage, r, args.radial) = raw_extent
           /\ ret.value = ClampedExtent(raw_extent, args.n, args.l, args.mode)

\* All probability lies before the third of four radii 0, 4, 8, 12: the
\* extent is 1.15 * 8 = 9.2, not that of the last radius.
C23_Witness ==
    /\ op = "auto_extent_a0_of_samples"
    /\ args.n = 1 /\ args.l = 0 /\ args.mode = "density"
    /\ args.radial = [i \in 0..3 |-> IF i = 1 THEN FromInt(1) ELSE FromInt(0)]
    /\ ret.status = "ok"
    /\ ret.value = Dec(92, -1)

\* The values of the radial function at SampledRadii.
SampledRadial ==
    IF op = "auto_extent_a0_of_samples" THEN args.radial
    ELSE LET r == SampledRadii
             called == radial_wavefunction(args.n, args.l, r)
         IN Array([i \in DOMAIN r |-> RadialValue(called.value[i])])

\* C24: in signed modes, whenever the sampled R takes strictly opposite
\* signs at two sample radii a node is found; the node found is the
\* outermost sign change (no two samples behind it have opposite signs);
\* the unclamped extent is max(1.25 * support_radius, 1.8 * last_node_radius)
\* when R changes sign and 1.25 * support_radius when it does not.
C24_LastNodeIsOutermostSignChange ==
    (ExtentReturned /\ ret.status = "ok" /\ args.mode \notin DensityLike) =>
        LET r == SampledRadii
            radial == SampledRadial
            last == Size(r) - 1
            positive == {i \in DOMAIN radial : radial[i][1] > 0}
            negative == {i \in DOMAIN radial : radial[i][1] < 0}
            node == last_node_candidate(radial)
            behind == {i \in DOMAIN radial : i > node + 1}
            \* the last sample of a sign that a later sample opposes
            changes == {i \in DOMAIN radial :
                           \/ i \in positive /\ \E j \in negative : j > i
                           \/ i \in negative /\ \E j \in positive : j > i}
            change == CHOOSE i \in changes : \A j \in changes : j <= i
            peak == np_nanmax([i \in DOMAIN radial |-> FAbs(radial[i])])
            significant == {i \in DOMAIN radial : FLeq(FMul(peak, Dec(2, -3)), FAbs(radial[i]))}
            support_radius == r[CHOOSE i \in significant : \A j \in significant : j <= i]
            raw_extent == IF changes # {}
                          THEN FMax(FMul(Dec(125, -2), support_radius),
                                    FMul(Dec(18, -1), r[change]))
                          ELSE FMul(Dec(125, -2), support_radius)
        IN /\ (positive # {} /\ negative # {}) => node # -1
           /\ node # -1 => ~(behind \cap positive # {} /\ behind \cap negative # {})
           /\ (op = "auto_extent_a0_of_samples" /\ FLess(Float(0, 0), peak)) =>
                 ret.value = ClampedExtent(raw_extent, args.n, args.l, args.mode)

\* C25: in signed modes a peak amplitude <= 0 (every sampled value is 0.0)
\* gives exactly 6.0; in density-like modes a zero total probability (the
\* sampled values are 0.0 at every radius but r = 0) is divided by 1.0, so
\* that every normalized value is the number 0.0, and the result is a number
\* inside the clamp range.
C25_DegenerateSamplesGiveFallbacks ==
    (op = "auto_extent_a0_of_samples" /\ ret.status = "ok") =>
        LET radial == args.radial
            normalized == normalized_cumulative(SampledRadii, radial)
        IN /\ (args.mode \notin DensityLike /\ \A i \in DOMAIN radial : radial[i][1] = 0)
                 => ret.value = FromInt(6)
           /\ (args.mode \in DensityLike /\ \A i \in DOMAIN radial : i = 0 \/ radial[i][1] = 0)
                 => /\ \A i \in DOMAIN normalized : normalized[i] = Float(0, 0)
                    /\ IsFinite(ret.value)
                    /\ FLeq(FromInt(4), ret.value)
                    /\ FLeq(ret.value, FromInt(Ceiling(args.n, args.l, args.mode)))

\* Density mode on samples that vanish everywhere but at r = 0: the index
\* is forced to the last radius, 1.15 * 12 a0 clipped to 10.0.
C25_Witness ==
    /\ op = "auto_extent_a0_of_samples"
    /\ args.n = 1 /\ args.l = 0 /\ args.mode = "density"
    /\ args.radial = [i \in 0..2 |-> IF i = 0 THEN FromInt(1) ELSE FromInt(0)]
    /\ ret.status = "ok"
    /\ ret.value = FromInt(10)

\* The calls of main that build a grid, evaluate on it or write a plot.
GridCalls == {"build_plane_grid", "cartesian_to_spherical", "hydrogen_wavefunction",
              "evaluate_mode", "radial_wavefunction", "spherical_harmonic",
              "plot_radial_distribution"} \cup RenderCalls

CliFinished == op = "main" /\ pc \in {"returned", "exited"}

CliBadPointsOrRange ==
    \/ args.points < MIN_POINTS
    \/ args.extent # None /\ FLeq(args.extent[1], Float(0, 0))

CliUsageErrorBeforeGrid ==
    /\ pc = "exited"
    /\ ret.status = "SystemExit"
    /\ \A i \in DOMAIN calls : calls[i].fn \notin GridCalls

\* C26 as stated: in the CLI main workflow a grid is built, evaluated on or
\* plotted only with points >= 25 and extent > 0, and every run with
\* --points below 25 or a non-positive --range ends with a usage error
\* before any grid is built or plot written.
C26_BadPointsOrRangeIsUsageError ==
    op = "main" =>
        /\ (\E i \in DOMAIN calls : calls[i].fn \in GridCalls)
               => args.points >= MIN_POINTS /\ FLess(Float(0, 0), locals.extent)
        /\ (CliFinished /\ CliBadPointsOrRange) => CliUsageErrorBeforeGrid

\* C26 amended: the same, for the runs that are given quantum numbers; a
\* run without quantum numbers prints the help and returns normally before
\* --points and --range are looked at, still without building a grid.
C26_GridOnlyWithValidPointsAndRange ==
    op = "main" =>
        /\ (\E i \in DOMAIN calls : calls[i].fn \in GridCalls)
               => args.points >= MIN_POINTS /\ FLess(Float(0, 0), locals.extent)
        /\ (CliFinished /\ CliBadPointsOrRange) =>
               IF args.quantum_numbers = <<>>
               THEN /\ pc = "returned"
                    /\ calls = <<Call("print_help", None)>>
               ELSE CliUsageErrorBeforeGrid

\* A run with valid quantum numbers and --points 24 exits with the usage
\* error for --points.
C26_Witness ==
    /\ op = "main" /\ pc = "exited"
    /\ args.quantum_numbers = <<2, 1>>
    /\ args.points = MIN_POINTS - 1
    /\ ret = ParserError("--points must be at least 25 for stable contour plotting.")
    /\ \A i \in DOMAIN calls : calls[i].fn \notin GridCalls

\* C27: in the GUI, after any sequence of slider movements, replots from the
\* Plot button, the Colorbar checkbox or the Advanced dialog, and timer
\* expirations, at most one timer scheduled by _on_slider is pending (every
\* timer of root.after is one of _on_slider).
C27_AtMostOneSliderTimerPending ==
    op = "gui" => Cardinality(app.after) <= 1

SliderTimerPending == op = "gui" /\ app.slider_after_id # None

\* The step that led here ran _plot_current.
PlotCurrentRan == Len(calls) > 0 /\ calls[1].fn = "parse_quantum_numbers"

DrawRequested == \E i \in DOMAIN calls : calls[i].fn = "canvas.draw_idle"

\* A radial profile or a plane grid was computed out to range.
UsesRange(range) ==
    \E i \in DOMAIN calls :
        /\ calls[i].fn \in {"radial_wavefunction", "build_plane_grid"}
        /\ calls[i].kw.extent_a0 = range

\* The controls hold inputs _plot_current draws a plot from.
Drawable ==
    LET mode == app.mode_var
        scale == resolve_scale(IF mode = "spherical_harmonic" THEN "real" ELSE mode,
                               app.settings.scale)
    IN /\ ~Rejected(app.qn_vars)
       /\ python_float(app.value_var).status = "ok"
       /\ mode = "spherical_harmonic" => scale # "log"
       /\ mode \in {"density", "real", "imag", "real_imag"}
              => plot_slice_scale(mode, scale).status = "ok"

\* C28 as stated: every slider movement is eventually followed by a replot
\* that uses the range of the most recent movement, with _slider_after_id
\* None afterwards.
C28_SliderMovementLeadsToReplotWithRange ==
    SliderTimerPending ~>
        (/\ op = "gui" /\ app.slider_after_id = None
         /\ PlotCurrentRan /\ DrawRequested
         /\ UsesRange(app.range_var))

\* C28 amended: every slider movement is eventually followed by a run of
\* _plot_current after which no timer is pending and _slider_after_id is
\* None; that run redraws exactly when the controls hold drawable inputs,
\* and it then uses the range of the most recent movement unless the mode
\* is spherical_harmonic, whose plot has no range.
C28_SliderMovementLeadsToPlotCurrent ==
    SliderTimerPending ~>
        (/\ op = "gui" /\ app.slider_after_id = None /\ app.after = {}
         /\ PlotCurrentRan
         /\ DrawRequested <=> Drawable
         /\ (DrawRequested /\ app.mode_var # "spherical_harmonic")
                => UsesRange(app.range_var))

\* The slider was moved to 4.0 and the timer has run _plot_current, which
\* redrew out to 4.0 without a dialog; no timer is left.
C28_Witness ==
    /\ op = "gui" /\ pc = "mainloop"
    /\ app.after_count > 0 /\ app.after = {} /\ app.slider_after_id = None
    /\ app.range_var = FromInt(4)
    /\ PlotCurrentRan /\ DrawRequested
    /\ UsesRange(FromInt(4))

\* The controls hold quantum numbers parse_quantum_numbers rejects or a
\* slice value text float() rejects.
InputInvalid ==
    Rejected(app.qn_vars) \/ python_float(app.value_var).status # "ok"

PlotRoutineCalls == NumericCalls \cup RenderCalls
                        \cup {"ax.plot", "cartesian_to_spherical", "evaluate_mode"}

\* C29: a run of the GUI's _plot_current in which quantum-number validation
\* or parsing of the slice value fails clears no figure, calls no plot
\* routine and requests no canvas redraw; it shows the "Input error" dialog
\* exactly when show_errors is true, and leaves the controls as they were.
C29_InputErrorLeavesFigureAlone ==
    [][(op' = "gui" /\ PlotCurrentRan' /\ InputInvalid') =>
          /\ \A i \in DOMAIN calls' :
                calls'[i].fn \notin {"figure.clear", "canvas.draw_idle"} \cup PlotRoutineCalls
          /\ (\E i \in DOMAIN calls' : calls'[i].fn = "messagebox.showerror")
                <=> locals'.show_errors
          /\ \A i \in DOMAIN calls' :
                calls'[i].fn = "messagebox.showerror" => calls'[i].kw.title = "Input error"
          /\ op = "gui" =>
                /\ app'.qn_vars = app.qn_vars /\ app'.value_var = app.value_var
                /\ app'.mode_var = app.mode_var /\ app'.plane_var = app.plane_var
                /\ app'.range_var = app.range_var]_vars

\* The debounce timer ran _plot_current on n = 1, l = 1: nothing but the
\* validation was called.
C29_Witness ==
    /\ op = "gui"
    /\ app.qn_vars = <<1, 1, 0>>
    /\ app.after_count > 0 /\ app.after = {}
    /\ calls = <<Call("parse_quantum_numbers", [values |-> <<1, 1, 0>>])>>
    /\ locals.show_errors = FALSE

SliceModes == {"density", "real", "imag", "real_imag"}

PlaneCalls == {"auto_plane_and_value", "build_plane_grid", "evaluate_mode"}

\* C30: in the CLI main workflow and in the GUI, auto_plane_and_value and
\* evaluate_mode are called only with a mode among density, real, imag and
\* real_imag; a run in mode radial_distribution or spherical_harmonic calls
\* neither of them and builds no plane grid.
C30_PlaneSelectionOnlyForSliceModes ==
    \A i \in DOMAIN calls :
        calls[i].fn \in PlaneCalls =>
            /\ WorkflowMode \in SliceModes
            /\ calls[i].fn \in {"auto_plane_and_value", "evaluate_mode"}
                   => calls[i].kw.mode = WorkflowMode

\* The GUI plots the radial distribution while the plane control says
\* "auto": the profile is computed and no plane is selected.
C30_Witness ==
    /\ op = "gui"
    /\ app.mode_var = "radial_distribution" /\ app.plane_var = "auto"
    /\ \E i \in DOMAIN calls : calls[i].fn = "radial_wavefunction"
    /\ \A i \in DOMAIN calls : calls[i].fn \notin PlaneCalls

============================================================================
